---- MODULE Spec2Model ----
(***************************************************************************)
(* A model of the VTS voice controller: the event bus (core/event_bus.py), *)
(* the keyword intent resolver (core/intent_resolver.py), the emotion      *)
(* detection loop (inputs/emotion_detector.py) and the expression          *)
(* synchronizer of ApplicationCore (core/application_core.py).             *)
(*                                                                         *)
(* Python strings are sequences of one-character strings, so that lower(), *)
(* replace() and the substring test "k in t" are computed, not assumed.    *)
(* A Python dict is a sequence of <<key, value>> pairs with distinct keys, *)
(* in insertion order, because the resolver's first match depends on the   *)
(* iteration order of the dict.                                            *)
(***************************************************************************)
EXTENDS Integers, Sequences, FiniteSets, TLC

VARIABLES
    queues,             \* EventBus._queues: topic -> pending events (domain = created topics)
    handles,            \* <<consumer, topic>> pairs: the consumer holds the queue subscribe() returned
    published,          \* history: per topic, the events passed to EventBus.publish
    received,           \* history: per <<consumer, topic>>, the events queue.get() returned
    now,                \* asyncio.get_event_loop().time(), in whole seconds
    expression_map,     \* KeywordIntentResolver.expression_map (dict keyword -> trigger data)
    active_cooldowns,   \* KeywordIntentResolver.active_cooldowns (dict hotkeyID -> end time)
    trace,              \* history: one record per transcript the resolver handled
    resolver_error,     \* the exception that ended resolve_intent, or "None"
    detected_emotion,   \* CnnEmotionDetector.detected_emotion
    running,            \* CnnEmotionDetector.running
    cap,                \* CnnEmotionDetector.cap: "none", "open", "failed", "released"
    releases,           \* history: how many times cap.release() was called
    frames,             \* history: one record per frame start_detection read
    emitted,            \* history: the labels passed to publish("emotion_detected", ...)
    config_expressions, \* ApplicationCore.config['expressions']
    saved_expressions,  \* the 'expressions' mapping in the file at config_path
    session_map,        \* the expression map _synchronize_expressions returned last
    lastSync,           \* history: the last synchronization pass
    prevSync,           \* history: the pass before it, when it saw the same expressions
    endpoint,           \* the class of the object whose connect() is called
    max_retries,        \* connect(): argument max_retries
    retry_delay,        \* connect(): argument retry_delay
    attempt,            \* connect(): the loop variable
    connect_pc,         \* connect(): "idle", "attempting", "sleeping", "returned", "raised"
    connLog,            \* history: the attempts, sleeps and status publications of connect()
    config_loaded,      \* ApplicationCore.config is not empty
    test_mode,          \* ApplicationCore.test_mode
    input_type,         \* ApplicationCore.input_type
    input_processor,    \* the class of ApplicationCore.input_processor, or "None"
    test_running,       \* TestInputProcessor.running
    authenticated,      \* how authenticate() ended: "no", "authenticated", "refused", "raised"
    run_pc,             \* ApplicationCore.run(): the await it is at, or how it ended
    tasks,              \* the tasks run() created: name -> "none", "created", "blocked", "done", "cancelled"
    cancelling,         \* the tasks with a cancellation requested and not yet delivered
    run_cancelled,      \* the task of run() was cancelled while it awaited gather()
    runLog,             \* history: the calls run() made, in order
    input_status,       \* history: the last status the input processor passed to publish
    recognition_mode,   \* SherpaOnnxASRProcessor.recognition_mode: "fast" or "accurate"
    asr_running,        \* SherpaOnnxASRProcessor.running
    input_stream,       \* the sd.InputStream of start_listening: "none", "open", "closed", "failed"
    stream_closes,      \* history: how many times the sd.InputStream was closed
    audio_buffer,       \* SherpaOnnxASRProcessor.audio_buffer: the number of speech frames in it
    last_text,          \* SherpaOnnxASRProcessor.last_text
    stream,             \* SherpaOnnxASRProcessor.stream: the hypothesis the decoder stream holds
    transcription_queue,     \* SherpaOnnxASRProcessor.transcription_queue
    audio_processing_task,   \* the task of process_audio_buffer_periodically
    ticks,              \* history: one record per recognition tick that found speech in the buffer
    cancelled_at,       \* history: the transcripts published when the listening pipeline was cancelled
    requests,           \* history: the trigger requests sent to VTube Studio, with their outcome
    emotion_mappings,   \* ApplicationCore.emotion_mappings: emotion label -> hotkey id
    emotion_cooldowns,  \* ApplicationCore.emotion_cooldowns: hotkey id -> time of its last trigger
    emoTrace,           \* history: one record per emotion event the handler took
    buffer_lock,        \* SherpaOnnxASRProcessor.buffer_lock: "free" or the task that holds it
    vad_buffer,         \* SherpaOnnxASRProcessor.vad_buffer: the VAD frames not yet classified
    lock_waiters,       \* the _audio_callback coroutines that wait for buffer_lock with a frame
    heard,              \* history: the frames classified, by class, and the frames appended
    fedLog,             \* history: per tick, the frames fed to the recognizer and the frames cleared
    main_expression_map,        \* vts_main.expression_map: keyword -> hotkey id
    last_triggered_expression,  \* vts_main.last_triggered_expression
    consecutive_trigger_count,  \* vts_main.consecutive_trigger_count
    expression_cooldowns,       \* vts_main.expression_cooldowns: hotkey id -> end of its cooldown
    wall_clock,                 \* time.time(), in seconds
    mainTrace           \* history: one record per transcript asr_callback was called with

busVars  == <<queues, handles, published, received>>
resVars  == <<now, expression_map, active_cooldowns, trace, resolver_error>>
emoVars  == <<detected_emotion, running, cap, releases, frames, emitted>>
syncVars == <<config_expressions, saved_expressions, session_map, lastSync, prevSync>>
conVars  == <<endpoint, max_retries, retry_delay, attempt, connect_pc, connLog>>
AppTestRestNoCancel == <<config_loaded, test_mode, input_type, input_processor,
                         authenticated, run_pc, run_cancelled, runLog>>
AppTestRest == <<AppTestRestNoCancel, cancelling>>
AppRest  == <<AppTestRest, test_running>>
appVars  == <<config_loaded, test_mode, input_type, input_processor, test_running,
              authenticated, run_pc, tasks, cancelling, run_cancelled, runLog, input_status>>
asrVars  == <<recognition_mode, asr_running, input_stream, stream_closes, audio_buffer,
              last_text, stream, transcription_queue, audio_processing_task, ticks, cancelled_at>>
gwVars   == <<requests>>
ehVars   == <<emotion_mappings, emotion_cooldowns, emoTrace>>
bufVars  == <<buffer_lock, vad_buffer, lock_waiters, heard, fedLog>>
mainVars == <<main_expression_map, last_triggered_expression, consecutive_trigger_count,
              expression_cooldowns, wall_clock, mainTrace>>
otherVars == <<bufVars, mainVars>>
vars     == <<busVars, resVars, emoVars, syncVars, conVars, appVars, asrVars, gwVars, ehVars,
              otherVars>>

\* Python's None where a string is expected: no string of the model has this character
NoneStr == <<"None">>

(***************************************************************************)
(* Strings                                                                 *)
(***************************************************************************)
\* str.lower() on the characters the model uses
LowerChar(c) ==
    CASE c = "A" -> "a"
      [] c = "B" -> "b"
      [] c = "H" -> "h"
      [] c = "E" -> "e"
      [] c = "K" -> "k"
      [] c = "N" -> "n"
      [] c = "O" -> "o"
      [] c = "R" -> "r"
      [] c = "W" -> "w"
      [] c = "Y" -> "y"
      [] c = "D" -> "d"
      [] c = "I" -> "i"
      [] OTHER -> c

Lower(s) == [i \in 1..Len(s) |-> LowerChar(s[i])]

\* str.replace(' ', '_')
ReplaceSpace(s) == [i \in 1..Len(s) |-> IF s[i] = " " THEN "_" ELSE s[i]]

\* Python's "k in t" for strings
IsSubstring(k, t) ==
    \E i \in 1..(Len(t) - Len(k) + 1) : SubSeq(t, i, i + Len(k) - 1) = k

\* Python truthiness of a string
Truthy(s) == s # <<>> /\ s # NoneStr

(***************************************************************************)
(* Dicts in insertion order                                                *)
(***************************************************************************)
DictKeys(d) == [i \in 1..Len(d) |-> d[i][1]]
DictHas(d, k) == \E i \in 1..Len(d) : d[i][1] = k
DictGet(d, k) == d[CHOOSE i \in 1..Len(d) : d[i][1] = k][2]
\* d[k] = v: an existing key keeps its position
DictSet(d, k, v) ==
    IF DictHas(d, k)
    THEN [i \in 1..Len(d) |-> IF d[i][1] = k THEN <<k, v>> ELSE d[i]]
    ELSE Append(d, <<k, v>>)
KeySet(d) == {d[i][1] : i \in 1..Len(d)}

(***************************************************************************)
(* EventBus                                                                *)
(***************************************************************************)
Event(event_type, payload) == [event_type |-> event_type, payload |-> payload]

FreshQueue(q, event_type) ==
    [x \in DOMAIN q \cup {event_type} |-> IF x = event_type THEN <<>> ELSE q[x]]

\* EventBus.get_queue: the queue is created on first touch
GetQueue(q, event_type) ==
    IF event_type \in DOMAIN q THEN q ELSE q @@ (event_type :> <<>>)

\* EventBus.publish: the event is put only when the topic has a queue
Publish(q, event_type, payload) ==
    IF event_type \in DOMAIN q
    THEN [q EXCEPT ![event_type] = Append(@, Event(event_type, payload))]
    ELSE q

Pending(q, event_type) == IF event_type \in DOMAIN q THEN q[event_type] ELSE <<>>


(***************************************************************************)
(* Bounds                                                                  *)
(***************************************************************************)
MaxPublish == 3     \* publish calls per topic in the bus specification
MaxEvents  == 3     \* transcripts published in the resolver specification
MaxTime    == 3     \* last clock value in the resolver specification
MaxFrames  == 4     \* frames read in the emotion specification
MaxRemote  == 2     \* hotkeys in one VTube Studio hotkey list
MaxRetries == 2     \* largest max_retries below the default that connect() is called with
MaxAppFrames == 1   \* frames read by the emotion pipeline in the run() specification
MaxTicks   == 2     \* recognition ticks that find speech in the buffer
MaxAudio   == 2     \* audio callbacks that append speech while the buffer is not processed
MaxDispatch == 3    \* dispatch events published in the gateway specification
MaxClock   == 6     \* last clock value in the trigger specification
MaxEmotions == 2    \* emotion events published in the trigger specification
MaxHeard   == 2     \* transcripts published in the trigger specification
MaxBlocks  == 2     \* audio blocks handed to _audio_callback
MaxReleases == 2    \* calls of cap.release() after which stop_detection is not called again
MaxCalls   == 5     \* transcripts asr_callback of vts_main is called with
MaxWallClock == 60  \* last value of time.time() in the specification of asr_callback

(***************************************************************************)
(* The bus on its own: producers publish, consumers subscribe and get      *)
(***************************************************************************)
BusTopics    == {"test_event", "other_event"}
BusPayloads  == {"test_payload", "p2"}
BusConsumers == {"c1", "c2"}

BusInit ==
    /\ queues = <<>>
    /\ handles = {}
    /\ published = [t \in BusTopics |-> <<>>]
    /\ received = [h \in BusConsumers \X BusTopics |-> <<>>]

\* await event_bus.publish(event_type, payload)
BusPublish(t, p) ==
    /\ Len(published[t]) < MaxPublish
    /\ queues' = Publish(queues, t, p)
    /\ published' = [published EXCEPT ![t] = Append(@, Event(t, p))]
    /\ UNCHANGED <<handles, received>>

\* queue = await event_bus.subscribe(event_type)
BusSubscribe(c, t) ==
    /\ queues' = GetQueue(queues, t)
    /\ handles' = handles \cup {<<c, t>>}
    /\ UNCHANGED <<published, received>>

\* event = await queue.get() on a queue subscribe() returned
BusGet(c, t) ==
    /\ <<c, t>> \in handles
    /\ Pending(queues, t) # <<>>
    /\ received' = [received EXCEPT ![<<c, t>>] = Append(@, Head(queues[t]))]
    /\ queues' = [queues EXCEPT ![t] = Tail(@)]
    /\ UNCHANGED <<handles, published>>


(***************************************************************************)
(* KeywordIntentResolver                                                   *)
(***************************************************************************)
Transcription == "transcription_received"
Hotkey        == "hotkey_triggered"
Resolver      == "resolve_intent"
Gateway       == "_handle_hotkey_events"

TriggerData(hotkeyID, cooldown_s) == [hotkeyID |-> hotkeyID, cooldown_s |-> cooldown_s]

\* the loop of _find_matching_keyword, from the i-th key on
RECURSIVE FindFrom(_, _, _)
FindFrom(map, transcription, i) ==
    IF i > Len(map) THEN NoneStr
    ELSE IF IsSubstring(map[i][1], transcription) THEN map[i][1]
    ELSE FindFrom(map, transcription, i + 1)

\* mutant: the last matching key wins
RECURSIVE FindBack(_, _, _)
FindBack(map, transcription, i) ==
    IF i < 1 THEN NoneStr
    ELSE IF IsSubstring(map[i][1], transcription) THEN map[i][1]
    ELSE FindBack(map, transcription, i - 1)

FindLastMatchingKeyword(map, transcription) == FindBack(map, transcription, Len(map))

FindMatchingKeyword(map, transcription) == FindFrom(map, transcription, 1)


\* the names bound in the module intent_resolver: its imports and its class
\* (there is no "import asyncio")
ResolverGlobals == {"logger", "EventBus", "Event", "VTubeStudioService", "KeywordIntentResolver"}

\* the evaluation of the global name raises NameError
NameError(name) == name \notin ResolverGlobals

\* _is_hotkey_on_cooldown: "cooldown_end_time and asyncio.get_event_loop()..." looks
\* asyncio up only when an end time is recorded
CooldownCheckRaises(cooldowns, hotkey_id) ==
    /\ hotkey_id \in DOMAIN cooldowns
    /\ cooldowns[hotkey_id] # 0
    /\ NameError("asyncio")

\* _start_cooldown: "asyncio.get_event_loop().time() + cooldown_s" comes first
StartCooldownRaises == NameError("asyncio")

\* cooldown_end_time and loop.time() < cooldown_end_time
IsHotkeyOnCooldown(cooldowns, hotkey_id, time) ==
    /\ hotkey_id \in DOMAIN cooldowns
    /\ cooldowns[hotkey_id] # 0
    /\ time < cooldowns[hotkey_id]

\* self.active_cooldowns[hotkey_id] = loop.time() + cooldown_s
StartCooldown(cooldowns, hotkey_id, cooldown_s, time) ==
    IF hotkey_id \in DOMAIN cooldowns
    THEN [cooldowns EXCEPT ![hotkey_id] = time + cooldown_s]
    ELSE cooldowns @@ (hotkey_id :> time + cooldown_s)

\* resolve_intent, up to its first await: the task subscribes
ResolverStart ==
    /\ <<Resolver, Transcription>> \notin handles
    /\ queues' = GetQueue(queues, Transcription)
    /\ handles' = handles \cup {<<Resolver, Transcription>>}
    /\ UNCHANGED <<published, received, resVars>>

\* one iteration of the loop of resolve_intent; an exception ends the coroutine
ResolveIntent ==
    /\ <<Resolver, Transcription>> \in handles
    /\ resolver_error = "None"
    /\ Pending(queues, Transcription) # <<>>
    /\ LET event == Head(queues[Transcription])
           rest == [queues EXCEPT ![Transcription] = Tail(@)]
           transcription == Lower(event.payload)
           matched_keyword == FindMatchingKeyword(expression_map, transcription)
           expression_data == DictGet(expression_map, matched_keyword)
           hotkey_id == expression_data.hotkeyID
           cooldown_s == expression_data.cooldown_s
           check_raises == /\ Truthy(matched_keyword)
                           /\ CooldownCheckRaises(active_cooldowns, hotkey_id)
           skip == \/ ~Truthy(matched_keyword)
                   \/ check_raises
                   \/ IsHotkeyOnCooldown(active_cooldowns, hotkey_id, now)
           start_raises == ~skip /\ cooldown_s > 0 /\ StartCooldownRaises
       IN  /\ queues' = IF skip THEN rest ELSE Publish(rest, Hotkey, hotkey_id)
           /\ active_cooldowns' =
                 IF ~skip /\ cooldown_s > 0 /\ ~start_raises
                 THEN StartCooldown(active_cooldowns, hotkey_id, cooldown_s, now)
                 ELSE active_cooldowns
           /\ resolver_error' = IF check_raises \/ start_raises THEN "NameError" ELSE "None"
           /\ trace' = Append(trace, [text   |-> event.payload,
                                      at     |-> now,
                                      before |-> active_cooldowns,
                                      after  |-> active_cooldowns',
                                      out    |-> IF skip THEN <<>> ELSE <<hotkey_id>>,
                                      raised |-> check_raises \/ start_raises])
    /\ UNCHANGED <<handles, published, received, now, expression_map>>

\* an input processor publishes a transcript
PublishTranscript(text) ==
    /\ Len(published[Transcription]) < MaxEvents
    /\ queues' = Publish(queues, Transcription, text)
    /\ published' = [published EXCEPT ![Transcription] = Append(@, Event(Transcription, text))]
    /\ UNCHANGED <<handles, received, resVars>>

\* _handle_hotkey_events, up to its first await: the task subscribes
GatewayStart ==
    /\ <<Gateway, Hotkey>> \notin handles
    /\ queues' = GetQueue(queues, Hotkey)
    /\ handles' = handles \cup {<<Gateway, Hotkey>>}
    /\ UNCHANGED <<published, received, resVars>>

\* one iteration of the loop of _handle_hotkey_events: the event is taken from the queue
\* (the request it then sends is HandleHotkeyEvent)
GatewayStep ==
    /\ <<Gateway, Hotkey>> \in handles
    /\ Pending(queues, Hotkey) # <<>>
    /\ received' = [received EXCEPT ![<<Gateway, Hotkey>>] = Append(@, Head(queues[Hotkey]))]
    /\ queues' = [queues EXCEPT ![Hotkey] = Tail(@)]
    /\ UNCHANGED <<handles, published, resVars>>

\* the event loop's clock advances
Tick ==
    /\ now < MaxTime
    /\ now' = now + 1
    /\ UNCHANGED <<busVars, expression_map, active_cooldowns, trace, resolver_error>>

hello == <<"h", "e", "l", "l", "o">>

\* the expression maps the resolver is constructed with
HelloMap  == << <<hello, TriggerData("hk1", 10)>> >>
TwoMap    == << <<<<"a">>, TriggerData("hk1", 2)>>, <<<<"b">>, TriggerData("hk2", 3)>> >>
SharedMap == << <<<<"b">>, TriggerData("hk1", 2)>>, <<<<"b", "a">>, TriggerData("hk1", 2)>> >>
FreeMap   == << <<<<"b">>, TriggerData("hk1", 0)>>, <<<<>>, TriggerData("hk2", 2)>> >>
ExpressionMaps == {HelloMap, TwoMap, SharedMap, FreeMap}

Transcripts == {hello, <<"b", "a">>, <<"B">>}

ResInit ==
    /\ now = 0
    /\ expression_map \in ExpressionMaps
    /\ active_cooldowns = <<>>
    /\ trace = <<>>
    /\ resolver_error = "None"

ResBusInit ==
    /\ queues = <<>>
    /\ handles = {}
    /\ published = (Transcription :> <<>>)
    /\ received = (<<Gateway, Hotkey>> :> <<>>)


(***************************************************************************)
(* CnnEmotionDetector                                                      *)
(***************************************************************************)
EmotionDetected == "emotion_detected"
EmotionStatus   == "emotion_detector_status"
EmotionHandler  == "_handle_emotion_events"

EMOTION_LABELS ==
    <<"neutral", "happiness", "surprise", "sadness", "anger", "disgust", "fear", "contempt">>

\* the values np.argmax takes in the model: neutral, happiness, sadness
ClassIndexes == {0, 1, 3}
NoFace == "no face"

\* mutant: every classified frame counts as a change
EmotionAlwaysChanged(current_emotion, detected) == TRUE

\* current_emotion != self.detected_emotion
EmotionChanged(current_emotion, detected) == current_emotion # detected

EmoInit ==
    /\ detected_emotion = "neutral"
    /\ running = FALSE
    /\ cap = "none"
    /\ releases = 0
    /\ frames = <<>>
    /\ emitted = <<>>

EmoBusInit ==
    /\ queues = <<>>
    /\ handles = {}
    /\ published = (EmotionDetected :> <<>>)
    /\ received = (<<EmotionHandler, EmotionDetected>> :> <<>>)

\* the status start_detection publishes after cv2.VideoCapture(...)
OpenStatus(opened) == IF opened THEN "Detecting" ELSE "Error: Webcam not found"

\* start_detection up to the loop: the webcam is opened, or cannot be
StartDetection(opened) ==
    /\ cap = "none"
    /\ cap' = IF opened THEN "open" ELSE "failed"
    /\ running' = opened
    /\ queues' = Publish(queues, EmotionStatus, OpenStatus(opened))
    /\ UNCHANGED <<handles, published, received, detected_emotion, releases, frames, emitted>>

\* one iteration of the loop of start_detection on a frame with a face
DetectFace(emotion_index) ==
    /\ running /\ cap = "open"
    /\ Len(frames) < MaxFrames
    /\ LET current_emotion == EMOTION_LABELS[emotion_index + 1]
           changed == EmotionChanged(current_emotion, detected_emotion)
       IN  /\ detected_emotion' = IF changed THEN current_emotion ELSE detected_emotion
           /\ queues' = IF changed
                        THEN Publish(queues, EmotionDetected, [emotion |-> current_emotion])
                        ELSE queues
           /\ published' = IF changed
                           THEN [published EXCEPT ![EmotionDetected] =
                                    Append(@, Event(EmotionDetected, [emotion |-> current_emotion]))]
                           ELSE published
           /\ emitted' = IF changed THEN Append(emitted, current_emotion) ELSE emitted
           /\ frames' = Append(frames, [label |-> current_emotion,
                                        out   |-> IF changed THEN <<current_emotion>> ELSE <<>>,
                                        after |-> detected_emotion'])
    /\ UNCHANGED <<handles, received, running, cap, releases>>

\* one iteration of the loop on a frame in which no face is found
DetectNoFace ==
    /\ running /\ cap = "open"
    /\ Len(frames) < MaxFrames
    /\ frames' = Append(frames, [label |-> NoFace, out |-> <<>>, after |-> detected_emotion])
    /\ UNCHANGED <<busVars, detected_emotion, running, cap, releases, emitted>>

\* cap.read() fails: the loop breaks, the webcam is released
FrameReadFails ==
    /\ running /\ cap = "open"
    /\ running' = FALSE
    /\ cap' = "released"
    /\ releases' = releases + 1
    /\ queues' = Publish(queues, EmotionStatus, "Stopped")
    /\ UNCHANGED <<handles, published, received, detected_emotion, frames, emitted>>

\* if self.cap: self.cap.release() -- cap is a VideoCapture from start_detection on
ReleasedBy(handle, count) == IF handle = "none" THEN count ELSE count + 1

\* stop_detection
StopDetection ==
    /\ releases < MaxReleases
    /\ running' = FALSE
    /\ cap' = IF cap = "none" THEN "none" ELSE "released"
    /\ releases' = ReleasedBy(cap, releases)
    /\ queues' = Publish(queues, EmotionStatus, "Stopped")
    /\ UNCHANGED <<handles, published, received, detected_emotion, frames, emitted>>

\* _handle_emotion_events, up to its first await: the task subscribes
EmotionHandlerStart ==
    /\ <<EmotionHandler, EmotionDetected>> \notin handles
    /\ queues' = GetQueue(queues, EmotionDetected)
    /\ handles' = handles \cup {<<EmotionHandler, EmotionDetected>>}
    /\ UNCHANGED <<published, received, emoVars>>


(***************************************************************************)
(* ApplicationCore: synchronization of the expressions                     *)
(***************************************************************************)
VtsHotkey(file, name, hotkeyID, type) ==
    [file |-> file, name |-> name, hotkeyID |-> hotkeyID, type |-> type]

YamlExpression(name, keywords, cooldown_s) ==
    [name |-> name, keywords |-> keywords, cooldown_s |-> cooldown_s]

NEW_KEYWORD_ == <<"N", "E", "W", "_", "K", "E", "Y", "W", "O", "R", "D", "_">>

DefaultCooldown == 60

\* f"NEW_KEYWORD_{exp_name.replace(' ', '_')}"
PlaceholderKeyword(exp_name) == NEW_KEYWORD_ \o ReplaceSpace(exp_name)

\* mutant: the display name itself becomes the keyword
NewYamlExpressionBareName(exp_name) ==
    YamlExpression(exp_name, <<exp_name>>, DefaultCooldown)

\* the entry _update_config_expressions makes for an expression the config lacks
NewYamlExpression(exp_name) ==
    YamlExpression(exp_name, <<PlaceholderKeyword(exp_name)>>, DefaultCooldown)

\* _get_vts_expressions: the ToggleExpression hotkeys of the response
RECURSIVE GetVtsExpressions(_)
GetVtsExpressions(availableHotkeys) ==
    IF availableHotkeys = <<>> THEN <<>>
    ELSE LET h == Head(availableHotkeys)
             rest == GetVtsExpressions(Tail(availableHotkeys))
         IN  IF h.type = "ToggleExpression" THEN <<h>> \o rest ELSE rest

\* the for loop of _update_config_expressions, from the i-th expression on
RECURSIVE UpdateLoop(_, _, _, _)
UpdateLoop(vts_expressions, yaml_expressions, i, acc) ==
    IF i > Len(vts_expressions) THEN acc
    ELSE LET exp == vts_expressions[i]
         IN  IF exp.file = "" \/ exp.name = <<>>
             THEN UpdateLoop(vts_expressions, yaml_expressions, i + 1, acc)
             ELSE IF DictHas(yaml_expressions, exp.file)
             THEN UpdateLoop(vts_expressions, yaml_expressions, i + 1,
                      [acc EXCEPT !.new = DictSet(@, exp.file, DictGet(yaml_expressions, exp.file))])
             ELSE UpdateLoop(vts_expressions, yaml_expressions, i + 1,
                      [new     |-> DictSet(acc.new, exp.file, NewYamlExpression(exp.name)),
                       updated |-> TRUE])

\* mutant: every pass is taken for an update
LengthAlwaysDiffers(new_yaml_expressions, yaml_expressions) == TRUE

\* mutant: a change of length is not noticed
LengthNeverDiffers(new_yaml_expressions, yaml_expressions) == FALSE

\* if len(new_yaml_expressions) != len(yaml_expressions): updated = True
LengthDiffers(new_yaml_expressions, yaml_expressions) ==
    Len(new_yaml_expressions) # Len(yaml_expressions)

\* _update_config_expressions: the new mapping, and whether it is saved
UpdateConfigExpressions(vts_expressions, yaml_expressions) ==
    LET r == UpdateLoop(vts_expressions, yaml_expressions, 1, [new |-> <<>>, updated |-> FALSE])
    IN  [new     |-> r.new,
         updated |-> r.updated \/ LengthDiffers(r.new, yaml_expressions)]

\* {exp.get('file'): exp.get('hotkeyID') for exp in vts_expressions}
RECURSIVE FileToHotkeyIdMap(_)
FileToHotkeyIdMap(vts_expressions) ==
    IF vts_expressions = <<>> THEN <<>>
    ELSE LET n == Len(vts_expressions)
         IN  DictSet(FileToHotkeyIdMap(SubSeq(vts_expressions, 1, n - 1)),
                     vts_expressions[n].file, vts_expressions[n].hotkeyID)

\* for keyword in exp_data.get('keywords', []): session_expression_map[keyword] = trigger_data
RECURSIVE SetKeywords(_, _, _)
SetKeywords(map, keywords, trigger_data) ==
    IF keywords = <<>> THEN map
    ELSE SetKeywords(DictSet(map, Head(keywords), trigger_data), Tail(keywords), trigger_data)

\* _build_session_expression_map, through the first n entries of the mapping
RECURSIVE BuildLoop(_, _, _)
BuildLoop(new_yaml_expressions, file_to_hotkey_id_map, n) ==
    IF n = 0 THEN <<>>
    ELSE LET map == BuildLoop(new_yaml_expressions, file_to_hotkey_id_map, n - 1)
             exp_file == new_yaml_expressions[n][1]
             exp_data == new_yaml_expressions[n][2]
             hotkey_id == IF DictHas(file_to_hotkey_id_map, exp_file)
                          THEN DictGet(file_to_hotkey_id_map, exp_file) ELSE ""
             trigger_data == TriggerData(hotkey_id, exp_data.cooldown_s)
         IN  IF hotkey_id = "" THEN map
             ELSE DictSet(SetKeywords(map, exp_data.keywords, trigger_data),
                          exp_data.name, trigger_data)

BuildSessionExpressionMap(new_yaml_expressions, file_to_hotkey_id_map) ==
    BuildLoop(new_yaml_expressions, file_to_hotkey_id_map, Len(new_yaml_expressions))

\* the hotkeys VTube Studio may list
AvailableHotkeys ==
    { VtsHotkey("a.json", <<"A">>, "hk1", "ToggleExpression"),
      VtsHotkey("b.json", <<"a", " ", "b">>, "hk2", "ToggleExpression"),
      VtsHotkey("a.json", <<"A", "b">>, "", "ToggleExpression"),
      VtsHotkey("c.json", <<>>, "hk4", "ToggleExpression"),
      VtsHotkey("b.json", <<"a", " ", "b">>, "hk5", "TriggerAnimation") }

RECURSIVE SeqsUpTo(_, _)
SeqsUpTo(S, n) ==
    IF n = 0 THEN {<<>>}
    ELSE LET shorter == SeqsUpTo(S, n - 1)
         IN  shorter \cup {Append(q, x) : q \in shorter, x \in S}

HotkeyLists == SeqsUpTo(AvailableHotkeys, MaxRemote)

\* the 'expressions' of vts_config.yaml when the application starts
InitialExpressions ==
    { <<>>,
      << <<"a.json", YamlExpression(<<"A">>, <<<<"H", "a">>>>, 10)>> >>,
      << <<"d.json", YamlExpression(<<"D">>, <<<<"d">>>>, 10)>>,
         <<"b.json", YamlExpression(<<"B">>, <<<<"b">>, <<"B">>>>, 0)>> >>,
      << <<"c.json", YamlExpression(<<"C">>, <<<<"c">>>>, 5)>> >> }

NoSync == [remote |-> <<>>, before |-> <<>>, result |-> <<>>, map |-> <<>>,
           wrote |-> FALSE, ran |-> FALSE]

SyncInit ==
    /\ config_expressions \in InitialExpressions
    /\ saved_expressions = config_expressions
    /\ session_map = <<>>
    /\ lastSync = NoSync
    /\ prevSync = NoSync

\* _synchronize_expressions on the hotkey list VTube Studio answers with
SynchronizeExpressions(availableHotkeys) ==
    LET vts_expressions == GetVtsExpressions(availableHotkeys)
        yaml_expressions == config_expressions
        update == UpdateConfigExpressions(vts_expressions, yaml_expressions)
        wrote == vts_expressions # <<>> /\ update.updated
        result == IF vts_expressions # <<>> THEN update.new ELSE <<>>
        map == IF vts_expressions # <<>>
               THEN BuildSessionExpressionMap(update.new, FileToHotkeyIdMap(vts_expressions))
               ELSE <<>>
    IN  /\ config_expressions' = IF wrote THEN update.new ELSE config_expressions
        /\ saved_expressions' = IF wrote THEN update.new ELSE saved_expressions
        /\ session_map' = map
        /\ lastSync' = [remote |-> vts_expressions, before |-> yaml_expressions,
                        result |-> result, map |-> map, wrote |-> wrote, ran |-> TRUE]
        /\ prevSync' = IF lastSync.ran /\ lastSync.remote = vts_expressions THEN lastSync ELSE NoSync


(***************************************************************************)
(* connect() of VTubeStudioService and of VTSWebSocketAgent (same body)    *)
(***************************************************************************)
VtsStatus == "vts_status_update"

Endpoints == {"VTubeStudioService", "VTSWebSocketAgent"}

DefaultMaxRetries == 5
DefaultRetryDelay == 5

\* one entry of the history of a connect() call
ConnEntry(op, ok, delay, status) == [op |-> op, ok |-> ok, delay |-> delay, status |-> status]
Attempted(ok)  == ConnEntry("attempt", ok, 0, "")
Slept(delay)   == ConnEntry("sleep", FALSE, delay, "")
Status(status) == ConnEntry("publish", FALSE, 0, status)

RetryAfterEveryFailure(a, m) == a < m
\* if attempt < max_retries - 1
RetryAgain(a, m) == a < m - 1

\* connect() up to the first vts.connect(): "Connecting..." is published, the loop is entered
ConnectCall ==
    /\ connect_pc = "idle"
    /\ queues' = Publish(queues, VtsStatus, "Connecting...")
    /\ connLog' = Append(connLog, Status("Connecting..."))
    /\ attempt' = 0
    /\ connect_pc' = IF 0 < max_retries THEN "attempting" ELSE "returned"
    /\ UNCHANGED <<handles, published, received, endpoint, max_retries, retry_delay>>

\* await self.vts.connect() returns (ok) or raises, and the code up to the next await
ConnectAttempt(ok) ==
    /\ connect_pc = "attempting"
    /\ IF ok
       THEN /\ queues' = Publish(queues, VtsStatus, "Connected")
            /\ connLog' = connLog \o <<Attempted(TRUE), Status("Connected")>>
            /\ connect_pc' = "returned"
       ELSE IF RetryAgain(attempt, max_retries)
       THEN /\ queues' = queues
            /\ connLog' = connLog \o <<Attempted(FALSE), Slept(retry_delay)>>
            /\ connect_pc' = "sleeping"
       ELSE /\ queues' = Publish(queues, VtsStatus, "Connection Failed")
            /\ connLog' = connLog \o <<Attempted(FALSE), Status("Connection Failed")>>
            /\ connect_pc' = "raised"
    /\ UNCHANGED <<handles, published, received, endpoint, max_retries, retry_delay, attempt>>

\* asyncio.sleep(retry_delay) returns: the for loop takes its next value, or is exhausted
ConnectWake ==
    /\ connect_pc = "sleeping"
    /\ attempt' = attempt + 1
    /\ connect_pc' = IF attempt + 1 < max_retries THEN "attempting" ELSE "returned"
    /\ UNCHANGED <<busVars, endpoint, max_retries, retry_delay, connLog>>

ConIdle ==
    /\ endpoint = "VTubeStudioService"
    /\ max_retries = DefaultMaxRetries
    /\ retry_delay = DefaultRetryDelay
    /\ attempt = 0
    /\ connect_pc = "idle"
    /\ connLog = <<>>

\* the values connect() is called with
MaxRetriesValues == (0 .. MaxRetries) \cup {DefaultMaxRetries}
RetryDelays == {1, DefaultRetryDelay}

ConInit ==
    /\ endpoint \in Endpoints
    /\ max_retries \in MaxRetriesValues
    /\ retry_delay \in RetryDelays
    /\ attempt = 0
    /\ connect_pc = "idle"
    /\ connLog = <<>>

\* a user interface may have subscribed to the status topic before connect() is called
ConBusInit ==
    /\ queues \in {<<>>, (VtsStatus :> <<>>)}
    /\ handles = {}
    /\ published = <<>>
    /\ received = <<>>


(***************************************************************************)
(* Trigger requests: VTubeStudioService.trigger_hotkey, VTSWebSocketAgent  *)
(***************************************************************************)
Agent == "VTSWebSocketAgent.run"

\* what self.vts.request(request) does with a trigger request: a response with the
\* hotkeyID, a response without it, or an exception
TriggerOutcomes == {"triggered", "error_response", "exception"}

HotkeyIds == {"hotkey_1", "hotkey_2"}

Request(by, hotkey_id, outcome) == [by |-> by, hotkey_id |-> hotkey_id, outcome |-> outcome]

TriggerHotkeyWithRetry(req, by, hotkey_id, outcome) ==
    IF outcome = "triggered"
    THEN Append(req, Request(by, hotkey_id, outcome))
    ELSE Append(Append(req, Request(by, hotkey_id, outcome)), Request(by, hotkey_id, outcome))

\* trigger_hotkey: one request; an error response and an exception are logged
TriggerHotkey(req, by, hotkey_id, outcome) == Append(req, Request(by, hotkey_id, outcome))

\* one iteration of the loop of _handle_hotkey_events, with the request it sends
HandleHotkeyEvent(outcome) ==
    /\ GatewayStep
    /\ requests' = TriggerHotkey(requests, Gateway, Head(queues[Hotkey]).payload, outcome)

AgentRequestType(event) == event.event_type

\* the action id VTSWebSocketAgent.run passes to trigger_hotkey
AgentRequestId(event) == event.payload

\* VTSWebSocketAgent.run up to its first get
AgentStart ==
    /\ <<Agent, Hotkey>> \notin handles
    /\ queues' = GetQueue(queues, Hotkey)
    /\ handles' = handles \cup {<<Agent, Hotkey>>}
    /\ UNCHANGED <<published, received, requests>>

\* one iteration of the loop of VTSWebSocketAgent.run
AgentStep(outcome) ==
    /\ <<Agent, Hotkey>> \in handles
    /\ Pending(queues, Hotkey) # <<>>
    /\ received' = [received EXCEPT ![<<Agent, Hotkey>>] = Append(@, Head(queues[Hotkey]))]
    /\ queues' = [queues EXCEPT ![Hotkey] = Tail(@)]
    /\ requests' = TriggerHotkey(requests, Agent, AgentRequestId(Head(queues[Hotkey])), outcome)
    /\ UNCHANGED <<handles, published>>

\* await event_bus.publish("hotkey_triggered", hotkey_id)
PublishDispatch(hotkey_id) ==
    /\ Len(published[Hotkey]) < MaxDispatch
    /\ queues' = Publish(queues, Hotkey, hotkey_id)
    /\ published' = [published EXCEPT ![Hotkey] = Append(@, Event(Hotkey, hotkey_id))]
    /\ UNCHANGED <<handles, received, requests>>

\* AppUI.start_application subscribes its listeners before it runs the core
UiListener == "AppUI._handle_hotkey_events"

UiListenerStart ==
    /\ <<UiListener, Hotkey>> \notin handles
    /\ queues' = GetQueue(queues, Hotkey)
    /\ handles' = handles \cup {<<UiListener, Hotkey>>}
    /\ UNCHANGED <<published, received, requests>>

\* one iteration of the loop of AppUI._handle_hotkey_events: the event is logged
UiHotkeyStep ==
    /\ <<UiListener, Hotkey>> \in handles
    /\ Pending(queues, Hotkey) # <<>>
    /\ received' = [received EXCEPT ![<<UiListener, Hotkey>>] = Append(@, Head(queues[Hotkey]))]
    /\ queues' = [queues EXCEPT ![Hotkey] = Tail(@)]
    /\ UNCHANGED <<handles, published, requests>>

GwIdle == requests = <<>>

GwBusInit ==
    /\ queues = <<>>
    /\ handles = {}
    /\ published = (Hotkey :> <<>>)
    /\ received = [h \in {<<Gateway, Hotkey>>, <<Agent, Hotkey>>, <<UiListener, Hotkey>>} |-> <<>>]


(***************************************************************************)
(* ApplicationCore._handle_emotion_events                                  *)
(***************************************************************************)
EMOTION_COOLDOWN_SECONDS == 5

\* self.emotion_cooldowns.get(hotkey_id, 0)
LastTriggered(cooldowns, hotkey_id) ==
    IF hotkey_id \in DOMAIN cooldowns THEN cooldowns[hotkey_id] ELSE 0

\* (current_time - last_triggered_time) > EMOTION_COOLDOWN_SECONDS
EmotionGate(cooldowns, hotkey_id, time) ==
    time - LastTriggered(cooldowns, hotkey_id) > EMOTION_COOLDOWN_SECONDS

\* the hotkey the label is mapped to, <<>> when the handler finds none to trigger
MappedHotkey(mappings, label) ==
    IF DictHas(mappings, label) /\ DictGet(mappings, label) # "null"
    THEN <<DictGet(mappings, label)>> ELSE <<>>

\* one iteration of the loop of _handle_emotion_events: a mapped label whose hotkey
\* passes the gate is triggered, its time recorded and a dispatch event published
HandleEmotionEvent(outcome) ==
    /\ <<EmotionHandler, EmotionDetected>> \in handles
    /\ Pending(queues, EmotionDetected) # <<>>
    /\ LET event == Head(queues[EmotionDetected])
           rest == [queues EXCEPT ![EmotionDetected] = Tail(@)]
           label == event.payload.emotion
           mapped == MappedHotkey(emotion_mappings, label)
           fire == mapped # <<>> /\ EmotionGate(emotion_cooldowns, mapped[1], now)
       IN  /\ received' = [received EXCEPT ![<<EmotionHandler, EmotionDetected>>] = Append(@, event)]
           /\ requests' = IF fire THEN TriggerHotkey(requests, EmotionHandler, mapped[1], outcome)
                          ELSE requests
           /\ emotion_cooldowns' =
                 IF fire
                 THEN [h \in DOMAIN emotion_cooldowns \cup {mapped[1]} |->
                          IF h = mapped[1] THEN now ELSE emotion_cooldowns[h]]
                 ELSE emotion_cooldowns
           /\ queues' = IF fire THEN Publish(rest, Hotkey, mapped[1]) ELSE rest
           /\ emoTrace' = Append(emoTrace, [emotion |-> label,
                                            at      |-> now,
                                            action  |-> mapped,
                                            before  |-> emotion_cooldowns,
                                            after   |-> emotion_cooldowns',
                                            out     |-> IF fire THEN mapped ELSE <<>>])
    /\ UNCHANGED <<handles, published, emotion_mappings>>

\* the detector publishes a label that differs from the one it published last
PublishEmotion(label) ==
    /\ Len(published[EmotionDetected]) < MaxEmotions
    /\ label # (IF published[EmotionDetected] = <<>> THEN "neutral"
                ELSE published[EmotionDetected][Len(published[EmotionDetected])].payload.emotion)
    /\ queues' = Publish(queues, EmotionDetected, [emotion |-> label])
    /\ published' = [published EXCEPT ![EmotionDetected] =
                        Append(@, Event(EmotionDetected, [emotion |-> label]))]
    /\ UNCHANGED <<handles, received>>

\* the transcripts heard: "ba" resolves to hk1, "B" to hk2
HeardTexts == {<<"b", "a">>, <<"B">>}

\* an input processor publishes a transcript
HearTranscript(text) ==
    /\ Len(published[Transcription]) < MaxHeard
    /\ queues' = Publish(queues, Transcription, text)
    /\ published' = [published EXCEPT ![Transcription] = Append(@, Event(Transcription, text))]
    /\ UNCHANGED <<handles, received>>

\* the elapsed times the clock advances by between two steps of the tasks
Elapsed == {3, 6}

\* the event loop's clock advances
ClockAdvances(d) ==
    /\ now + d <= MaxClock
    /\ now' = now + d
    /\ UNCHANGED <<expression_map, active_cooldowns, trace, resolver_error>>

HappyMap == << <<"happiness", "hk1">>, <<"sadness", "hk2">>, <<"neutral", "null">> >>
SameMap  == << <<"happiness", "hk1">>, <<"sadness", "hk1">> >>
EmotionMappings == {HappyMap, SameMap}

EhIdle ==
    /\ emotion_mappings = <<>>
    /\ emotion_cooldowns = <<>>
    /\ emoTrace = <<>>

\* ApplicationCore.__init__ with a configuration that has emotion_mappings
EhInit ==
    /\ emotion_mappings \in EmotionMappings
    /\ emotion_cooldowns = <<>>
    /\ emoTrace = <<>>

\* the clock of the event loop when the tasks start
TriggerResInit ==
    /\ now \in {0, MaxClock}
    /\ expression_map = TwoMap
    /\ active_cooldowns = <<>>
    /\ trace = <<>>
    /\ resolver_error = "None"

TriggerBusInit ==
    /\ queues = <<>>
    /\ handles = {}
    /\ published = (Transcription :> <<>>) @@ (EmotionDetected :> <<>>)
    /\ received = (<<EmotionHandler, EmotionDetected>> :> <<>>)


(***************************************************************************)
(* ApplicationCore.run(): start-up, the tasks, cancellation and shutdown   *)
(***************************************************************************)
InputConsumer == "_input_consumer"
AsrStatus     == "asr_status_update"
AsrReady      == "asr_ready"

\* the tasks in the order run() creates them
TaskOrder(type) ==
    IF type = "emotion_detection"
    THEN <<Resolver, InputConsumer, Gateway, EmotionHandler>>
    ELSE <<Resolver, InputConsumer, Gateway>>

TaskNames == {Resolver, InputConsumer, Gateway, EmotionHandler}

NoTasks == [t \in TaskNames |-> "none"]

CreateTasks(type) ==
    [t \in TaskNames |-> IF \E i \in DOMAIN TaskOrder(type) : TaskOrder(type)[i] = t
                         THEN "created" ELSE "none"]

\* TestInputProcessor.test_phrase
TestPhrase == <<"I", " ", "a", "m", " ", "s", "o", " ", "a", "n", "g", "r", "y">>

\* the hotkey lists VTube Studio answers with in the run() specification
AppHotkeyLists == {<<>>, <<VtsHotkey("a.json", <<"A">>, "hk1", "ToggleExpression")>>}

\* the event loop starts tasks in the order of their creation
CanStart(t) ==
    /\ tasks[t] = "created"
    /\ t \notin cancelling
    /\ \A i, j \in DOMAIN TaskOrder(input_type) :
          (i < j /\ TaskOrder(input_type)[j] = t) => tasks[TaskOrder(input_type)[i]] # "created"

\* the task is suspended at an await and no cancellation is pending for it
CanStep(t) == tasks[t] = "blocked" /\ t \notin cancelling

\* run() up to the first await: _initialize_components calls connect()
RunCall ==
    /\ run_pc = "idle"
    /\ IF config_loaded
       THEN /\ ConnectCall
            /\ run_pc' = IF connect_pc' = "returned" THEN "authenticate" ELSE "connect"
            /\ runLog' = Append(runLog, "connect")
       ELSE /\ run_pc' = "returned"
            /\ UNCHANGED <<busVars, conVars, runLog>>
    /\ UNCHANGED <<config_loaded, test_mode, input_type, input_processor, test_running,
                   authenticated, tasks, cancelling, run_cancelled, input_status>>

\* an attempt of connect() ends; on success run() goes on to authenticate()
RunConnectAttempt(ok) ==
    /\ run_pc = "connect"
    /\ ConnectAttempt(ok)
    /\ run_pc' = CASE connect_pc' = "returned" -> "authenticate"
                   [] connect_pc' = "raised" -> "raised"
                   [] OTHER -> "connect"
    /\ UNCHANGED <<config_loaded, test_mode, input_type, input_processor, test_running,
                   authenticated, tasks, cancelling, run_cancelled, runLog, input_status>>

RunConnectWake ==
    /\ run_pc = "connect"
    /\ ConnectWake
    /\ run_pc' = IF connect_pc' = "returned" THEN "authenticate" ELSE "connect"
    /\ UNCHANGED <<config_loaded, test_mode, input_type, input_processor, test_running,
                   authenticated, tasks, cancelling, run_cancelled, runLog, input_status>>

AuthResults == {"authenticated", "refused", "raised"}

AuthStatus(result) ==
    CASE result = "authenticated" -> "Authenticated"
      [] result = "refused" -> "Authentication Failed"
      [] OTHER -> "Authentication Error"

\* authenticate() re-raises what the requests raise, and returns otherwise
AuthenticateRaises(result) == result = "raised"

\* authenticate(): the two requests are answered, or one of them raises
Authenticate(result) ==
    /\ run_pc = "authenticate"
    /\ authenticated' = result
    /\ queues' = Publish(queues, VtsStatus, AuthStatus(result))
    /\ run_pc' = IF AuthenticateRaises(result) THEN "raised" ELSE "synchronize"
    /\ runLog' = Append(runLog, "authenticate")
    /\ UNCHANGED <<handles, published, received, config_loaded, test_mode, input_type,
                   input_processor, test_running, tasks, cancelling, run_cancelled,
                   input_status>>

ProcessorAssumed(test, type, loaded) == TRUE

\* _initialize_components returns with an input processor: run() passes
\* "if not self.input_processor" and creates its tasks
ProcessorReady(test, type, loaded) == test \/ (type = "emotion_detection" /\ loaded)

\* the hotkey list arrives: _synchronize_expressions, the resolver is constructed, the
\* input processor is created and initialized, and run() creates its tasks and awaits
\* gather(). loaded: the emotion model loads / models.yaml knows the language.
SynchronizeAndStart(availableHotkeys, loaded) ==
    /\ run_pc = "synchronize"
    /\ SynchronizeExpressions(availableHotkeys)
    /\ expression_map' = session_map'
    /\ active_cooldowns' = <<>>
    /\ resolver_error' = "None"
    /\ LET started == ProcessorReady(test_mode, input_type, loaded)
       IN  /\ input_processor' =
                 IF test_mode THEN "TestInputProcessor"
                 ELSE IF input_type = "emotion_detection" THEN "CnnEmotionDetector"
                 ELSE IF loaded THEN "SherpaOnnxASRProcessor" ELSE "None"
           /\ queues' =
                 IF test_mode THEN Publish(queues, AsrStatus, "Test Mode Ready")
                 ELSE IF input_type = "emotion_detection" /\ loaded
                 THEN Publish(queues, EmotionStatus, "Initialized")
                 ELSE queues
           \* initialize() of SherpaOnnxASRProcessor has no parameter microphone_name:
           \* the call of set_language raises TypeError
           /\ run_pc' = IF started THEN "gather"
                        ELSE IF input_processor' = "None" THEN "returned" ELSE "raised"
           /\ input_status' =
                 IF test_mode THEN "Test Mode Ready"
                 ELSE IF input_type = "emotion_detection" /\ loaded THEN "Initialized"
                 ELSE input_status
           /\ tasks' = IF started THEN CreateTasks(input_type) ELSE tasks
           /\ runLog' = runLog \o (IF started
                                   THEN <<"synchronize", "initialize", "create_tasks">>
                                   ELSE <<"synchronize", "initialize">>)
    /\ UNCHANGED <<handles, published, received, now, trace, config_loaded, test_mode,
                   input_type, test_running, authenticated, cancelling, run_cancelled>>

\* the first step of the task of resolve_intent
TaskResolverStart ==
    /\ CanStart(Resolver)
    /\ ResolverStart
    /\ tasks' = [tasks EXCEPT ![Resolver] = "blocked"]
    /\ UNCHANGED input_status

\* an exception of resolve_intent ends its task
TaskResolveIntent ==
    /\ CanStep(Resolver)
    /\ ResolveIntent
    /\ tasks' = [tasks EXCEPT ![Resolver] = IF resolver_error' = "None" THEN @ ELSE "failed"]
    /\ UNCHANGED input_status

TaskGatewayStart ==
    /\ CanStart(Gateway)
    /\ GatewayStart
    /\ tasks' = [tasks EXCEPT ![Gateway] = "blocked"]
    /\ UNCHANGED input_status

TaskGatewayStep(outcome) ==
    /\ CanStep(Gateway)
    /\ HandleHotkeyEvent(outcome)
    /\ UNCHANGED <<tasks, input_status>>

TaskEmotionHandlerStart ==
    /\ CanStart(EmotionHandler)
    /\ EmotionHandlerStart
    /\ tasks' = [tasks EXCEPT ![EmotionHandler] = "blocked"]
    /\ UNCHANGED input_status

\* _input_consumer over TestInputProcessor.start_listening, up to asyncio.sleep(2)
TestStartListening ==
    /\ CanStart(InputConsumer)
    /\ input_processor = "TestInputProcessor"
    /\ test_running' = TRUE
    /\ queues' = Publish(queues, AsrReady, "True")
    /\ tasks' = [tasks EXCEPT ![InputConsumer] = "blocked"]
    /\ UNCHANGED <<handles, published, received, input_status>>

\* the sleep ends: the test phrase is published once and the generator is exhausted
TestPhraseSent ==
    /\ CanStep(InputConsumer)
    /\ input_processor = "TestInputProcessor"
    /\ queues' = IF test_running THEN Publish(queues, Transcription, TestPhrase) ELSE queues
    /\ test_running' = FALSE
    /\ tasks' = [tasks EXCEPT ![InputConsumer] = "done"]
    /\ UNCHANGED <<handles, published, received, input_status>>

\* _input_consumer over CnnEmotionDetector.start_detection: a webcam that cannot be
\* opened ends the generator, and with it the task
TaskStartDetection(opened) ==
    /\ CanStart(InputConsumer)
    /\ input_processor = "CnnEmotionDetector"
    /\ StartDetection(opened)
    /\ tasks' = [tasks EXCEPT ![InputConsumer] = IF opened THEN "blocked" ELSE "done"]
    /\ input_status' = OpenStatus(opened)

TaskDetectFace(emotion_index) ==
    /\ CanStep(InputConsumer)
    /\ input_processor = "CnnEmotionDetector"
    /\ Len(frames) < MaxAppFrames
    /\ DetectFace(emotion_index)
    /\ UNCHANGED <<tasks, input_status>>

TaskDetectNoFace ==
    /\ CanStep(InputConsumer)
    /\ input_processor = "CnnEmotionDetector"
    /\ Len(frames) < MaxAppFrames
    /\ DetectNoFace
    /\ UNCHANGED <<tasks, input_status>>

TaskFrameReadFails ==
    /\ CanStep(InputConsumer)
    /\ input_processor = "CnnEmotionDetector"
    /\ FrameReadFails
    /\ tasks' = [tasks EXCEPT ![InputConsumer] = "done"]
    /\ input_status' = "Stopped"

\* gather(*tasks) without return_exceptions: the first exception of a child is set on
\* the future run() awaits, and the other children are left running
GatherRaised == \E t \in TaskNames : tasks[t] = "failed"

\* the tasks gather() cancels when it is cancelled: its children that are not done
GatherCancels(t) == tasks[t] \in {"created", "blocked"}

\* the task of run() is cancelled. During start-up CancelledError leaves run(); at
\* gather() the cancellation is passed on to the children, unless the future of
\* gather() is done already: then cancel() of it does nothing and run() alone gets
\* the CancelledError
CancelRun ==
    /\ ~run_cancelled
    /\ run_pc \in {"connect", "authenticate", "synchronize", "gather"}
    /\ run_cancelled' = TRUE
    /\ IF run_pc = "gather"
       THEN /\ cancelling' = IF GatherRaised THEN cancelling
                             ELSE {t \in TaskNames : GatherCancels(t)}
            /\ run_pc' = run_pc
       ELSE /\ cancelling' = cancelling
            /\ run_pc' = "cancelled"
    /\ runLog' = Append(runLog, "cancel")
    /\ UNCHANGED <<config_loaded, test_mode, input_type, input_processor, test_running,
                   authenticated, tasks, input_status>>

\* CancelledError is thrown into a task: resolve_intent lets it through, the other
\* coroutines catch it and return; a task that never ran is cancelled as it is
TaskCancelled(t) ==
    /\ t \in cancelling
    /\ cancelling' = cancelling \ {t}
    /\ tasks' = [tasks EXCEPT ![t] = IF tasks[t] = "created" \/ t = Resolver
                                     THEN "cancelled" ELSE "done"]
    /\ UNCHANGED <<config_loaded, test_mode, input_type, input_processor, test_running,
                   authenticated, run_pc, run_cancelled, runLog, input_status>>

\* disconnect(): the endpoint is connected when run() reaches its finally block
Disconnect(q) == Publish(q, VtsStatus, "Disconnected")

\* gather() ends with CancelledError once its children have ended, and run() logs it;
\* or gather() ends with the exception of a child, which no except clause of run()
\* takes. run() runs its finally block: disconnect(), then stop_listening() or
\* stop_detection()
RunShutdown ==
    /\ run_pc = "gather"
    /\ \/ run_cancelled /\ cancelling = {}
       \/ GatherRaised
    /\ run_pc' = IF run_cancelled THEN "returned" ELSE "raised"
    /\ input_status' = "Stopped"
    /\ IF input_processor = "CnnEmotionDetector"
       THEN /\ running' = FALSE
            /\ cap' = IF cap = "none" THEN "none" ELSE "released"
            /\ releases' = ReleasedBy(cap, releases)
            /\ queues' = Publish(Disconnect(queues), EmotionStatus, "Stopped")
            /\ test_running' = test_running
            /\ runLog' = runLog \o <<"disconnect", "stop_detection">>
       ELSE /\ test_running' = FALSE
            /\ queues' = Publish(Disconnect(queues), AsrStatus, "Stopped")
            /\ UNCHANGED <<running, cap, releases>>
            /\ runLog' = runLog \o <<"disconnect", "stop_listening">>
    /\ UNCHANGED <<handles, published, received, detected_emotion, frames, emitted,
                   config_loaded, test_mode, input_type, input_processor,
                   authenticated, tasks, cancelling, run_cancelled>>

AppIdle ==
    /\ config_loaded = TRUE
    /\ test_mode = FALSE
    /\ input_type = "voice"
    /\ input_processor = "None"
    /\ test_running = FALSE
    /\ authenticated = "no"
    /\ run_pc = "idle"
    /\ tasks = NoTasks
    /\ cancelling = {}
    /\ run_cancelled = FALSE
    /\ runLog = <<>>
    /\ input_status = ""

\* ApplicationCore(config_path, test_mode, ..., input_type), before run() is called
AppInit ==
    /\ config_loaded \in BOOLEAN
    /\ test_mode \in BOOLEAN
    /\ input_type \in {"voice", "emotion_detection"}
    /\ input_processor = "None"
    /\ test_running = FALSE
    /\ authenticated = "no"
    /\ run_pc = "idle"
    /\ tasks = NoTasks
    /\ cancelling = {}
    /\ run_cancelled = FALSE
    /\ runLog = <<>>
    /\ input_status = ""

AppBusInit ==
    /\ queues = <<>>
    /\ handles = {}
    /\ published = (EmotionDetected :> <<>>)
    /\ received = (<<Gateway, Hotkey>> :> <<>>)

\* vts_config.yaml has one expression when the application starts
AppSyncInit ==
    /\ config_expressions =
          << <<"a.json", YamlExpression(<<"A">>, <<<<"a", "n", "g", "r", "y">>>>, 10)>> >>
    /\ saved_expressions = config_expressions
    /\ session_map = <<>>
    /\ lastSync = NoSync
    /\ prevSync = NoSync


(***************************************************************************)
(* SherpaOnnxASRProcessor under a consumer task (_input_consumer)          *)
(***************************************************************************)
AudioTask == "process_audio_buffer_periodically"

\* str.strip() on the characters the model uses
RECURSIVE LStrip(_)
LStrip(s) == IF s # <<>> /\ Head(s) = " " THEN LStrip(Tail(s)) ELSE s

RECURSIVE RStrip(_)
RStrip(s) == IF s # <<>> /\ s[Len(s)] = " " THEN RStrip(SubSeq(s, 1, Len(s) - 1)) ELSE s

Strip(s) == RStrip(LStrip(s))

\* what recognizer.get_result(stream) returns at a tick
Results == {<<>>, <<"h", "i">>, <<"h", "i", " ">>, <<"y", "o">>}

FreshOrRepeated(text, last) == text # <<>>

\* if text and text != self.last_text
Fresh(text, last) == text # <<>> /\ text # last

PartialEmitted(result, is_endpoint) == Strip(result)

\* accurate mode: the result is read only at an endpoint
FinalEmitted(result, is_endpoint) == IF is_endpoint THEN Strip(result) ELSE <<>>

ResetsInFastMode(mode, is_endpoint) == is_endpoint /\ mode = "fast"

\* if self.recognizer.is_endpoint(self.stream): self.recognizer.reset(self.stream)
ResetsStream(mode, is_endpoint) == is_endpoint

\* _transcribe_np after the audio is decoded into the hypothesis result: the text to
\* publish, the new last_text, whether the stream is reset and what it then holds
TranscribeNp(mode, last, result, is_endpoint) ==
    LET reset == ResetsStream(mode, is_endpoint)
        held == IF reset THEN <<>> ELSE result
    IN  IF mode = "fast"
        THEN LET text == Strip(result)
                 fresh == Fresh(text, last)
             IN  [text |-> IF fresh THEN text ELSE <<>>,
                  last_text |-> IF reset THEN <<>> ELSE IF fresh THEN text ELSE last,
                  reset |-> reset, stream |-> held]
        ELSE [text |-> FinalEmitted(result, is_endpoint), last_text |-> last,
              reset |-> reset, stream |-> held]

KeepAudioTask(state, pending) == pending

\* audio_processing_task.cancel(): a task that has not ended gets the cancellation
CancelAudioTask(state, pending) ==
    IF state \in {"created", "sleeping"} THEN pending \cup {AudioTask} ELSE pending

\* _input_consumer starts iterating start_listening(): the tick task is created and the
\* audio input is opened. If it cannot be opened, "Error" is published, the exception
\* passes the finally block and _input_consumer logs it: the task ends
StartListening(opened) ==
    /\ tasks[InputConsumer] = "created" /\ InputConsumer \notin cancelling
    /\ input_processor = "SherpaOnnxASRProcessor"
    /\ audio_processing_task' = "created"
    /\ IF opened
       THEN /\ asr_running' = TRUE
            /\ input_stream' = "open"
            /\ queues' = Publish(Publish(queues, AsrStatus, "Listening"), AsrReady, "True")
            /\ input_status' = "Listening"
            /\ cancelling' = cancelling
            /\ tasks' = [tasks EXCEPT ![InputConsumer] = "blocked"]
       ELSE /\ asr_running' = FALSE
            /\ input_stream' = "failed"
            /\ queues' = Publish(Publish(queues, AsrStatus, "Listening"), AsrStatus, "Error")
            /\ input_status' = "Error"
            /\ cancelling' = CancelAudioTask("created", cancelling)
            /\ tasks' = [tasks EXCEPT ![InputConsumer] = "done"]
    /\ UNCHANGED <<handles, published, received, AppTestRestNoCancel, test_running,
                   recognition_mode, stream_closes, audio_buffer, last_text, stream,
                   transcription_queue, ticks, cancelled_at>>

\* the first step of process_audio_buffer_periodically: to the sleep, if running
AudioTaskStart ==
    /\ audio_processing_task = "created" /\ AudioTask \notin cancelling
    /\ audio_processing_task' = IF asr_running THEN "sleeping" ELSE "done"
    /\ UNCHANGED <<busVars, appVars, recognition_mode, asr_running, input_stream,
                   stream_closes, audio_buffer, last_text, stream, transcription_queue, ticks,
                   cancelled_at>>

\* one block of the open audio input: its two VAD frames, of which those with speech
\* are appended to audio_buffer
AudioCallback(first_is_speech, second_is_speech) ==
    /\ input_stream = "open"
    /\ audio_buffer < MaxAudio
    /\ first_is_speech \/ second_is_speech
    /\ audio_buffer' = audio_buffer + (IF first_is_speech /\ second_is_speech THEN 2 ELSE 1)
    /\ UNCHANGED <<busVars, appVars, recognition_mode, asr_running, input_stream,
                   stream_closes, last_text, stream, transcription_queue, audio_processing_task,
                   ticks, cancelled_at>>

\* one iteration of process_audio_buffer_periodically that finds speech in the buffer.
\* An exception of the recognizer leaves the coroutine: nothing catches it
RecognitionTick(result, is_endpoint, raises) ==
    /\ audio_processing_task = "sleeping" /\ AudioTask \notin cancelling
    /\ audio_buffer > 0
    /\ Len(ticks) < MaxTicks
    /\ LET out == TranscribeNp(recognition_mode, last_text, result, is_endpoint)
           said == ~raises /\ out.text # <<>>
       IN  /\ queues' =
                 IF raises THEN Publish(queues, AsrStatus, "Transcribing")
                 ELSE LET q1 == Publish(queues, AsrStatus, "Transcribing")
                          q2 == IF said THEN Publish(q1, Transcription, out.text) ELSE q1
                      IN  Publish(q2, AsrStatus, "Listening")
           /\ published' =
                 IF said
                 THEN [published EXCEPT ![Transcription] = Append(@, Event(Transcription, out.text))]
                 ELSE published
           /\ transcription_queue' =
                 IF said THEN Append(transcription_queue, out.text) ELSE transcription_queue
           /\ last_text' = IF raises THEN last_text ELSE out.last_text
           /\ stream' = IF raises THEN stream ELSE out.stream
           /\ audio_buffer' = IF raises THEN audio_buffer ELSE 0
           /\ input_status' = IF raises THEN "Transcribing" ELSE "Listening"
           /\ audio_processing_task' =
                 IF raises THEN "failed" ELSE IF asr_running THEN "sleeping" ELSE "done"
           /\ ticks' = Append(ticks, [raised |-> raises,
                                      result |-> result,
                                      is_endpoint |-> is_endpoint,
                                      text |-> IF said THEN out.text ELSE <<>>,
                                      reset |-> ~raises /\ out.reset,
                                      stream |-> stream',
                                      buffer |-> audio_buffer'])
    /\ UNCHANGED <<handles, received, AppTestRest, tasks, test_running, recognition_mode,
                   asr_running, input_stream, stream_closes, cancelled_at>>

\* transcription_queue.get() returns and the text is yielded to _input_consumer; the
\* loop goes on while running, else the with block closes the audio input
ConsumerGet ==
    /\ tasks[InputConsumer] = "blocked" /\ InputConsumer \notin cancelling
    /\ input_processor = "SherpaOnnxASRProcessor"
    /\ transcription_queue # <<>>
    /\ transcription_queue' = Tail(transcription_queue)
    /\ IF asr_running
       THEN UNCHANGED <<input_stream, stream_closes, cancelling, tasks>>
       ELSE /\ input_stream' = "closed"
            /\ stream_closes' = stream_closes + 1
            /\ cancelling' = CancelAudioTask(audio_processing_task, cancelling)
            /\ tasks' = [tasks EXCEPT ![InputConsumer] = "done"]
    /\ UNCHANGED <<busVars, AppTestRestNoCancel, test_running, input_status,
                   recognition_mode, asr_running, audio_buffer, last_text, stream,
                   audio_processing_task, ticks, cancelled_at>>

\* the consumer task is cancelled by whoever holds it
CancelConsumer ==
    /\ tasks[InputConsumer] \in {"created", "blocked"}
    /\ InputConsumer \notin cancelling
    /\ input_processor = "SherpaOnnxASRProcessor"
    /\ cancelling' = cancelling \cup {InputConsumer}
    /\ UNCHANGED <<busVars, AppTestRestNoCancel, tasks, test_running, input_status, asrVars, gwVars>>

\* CancelledError reaches start_listening at transcription_queue.get(): the with block
\* closes the audio input, the except clause logs, the finally block cancels the tick
\* task and clears running; the generator ends and _input_consumer returns.
\* A consumer that never ran is cancelled as it is
ConsumerCancelled ==
    /\ InputConsumer \in cancelling
    /\ input_processor = "SherpaOnnxASRProcessor"
    /\ IF tasks[InputConsumer] = "created"
       THEN /\ tasks' = [tasks EXCEPT ![InputConsumer] = "cancelled"]
            /\ cancelling' = cancelling \ {InputConsumer}
            /\ UNCHANGED <<asr_running, input_stream, stream_closes, cancelled_at>>
       ELSE /\ tasks' = [tasks EXCEPT ![InputConsumer] = "done"]
            /\ input_stream' = "closed"
            /\ stream_closes' = stream_closes + 1
            /\ asr_running' = FALSE
            /\ cancelling' =
                  CancelAudioTask(audio_processing_task, cancelling \ {InputConsumer})
            /\ cancelled_at' = Len(published[Transcription])
    /\ UNCHANGED <<busVars, AppTestRestNoCancel, test_running, input_status,
                   recognition_mode, audio_buffer, last_text, stream, transcription_queue,
                   audio_processing_task, ticks>>

\* CancelledError reaches the tick task at its sleep, or before its first step
AudioTaskCancelled ==
    /\ AudioTask \in cancelling
    /\ cancelling' = cancelling \ {AudioTask}
    /\ audio_processing_task' = "cancelled"
    /\ UNCHANGED <<busVars, AppTestRestNoCancel, tasks, test_running, input_status,
                   recognition_mode, asr_running, input_stream, stream_closes,
                   audio_buffer, last_text, stream, transcription_queue, ticks, cancelled_at>>

\* stop_listening(): running is cleared, the tick task is cancelled and awaited, and
\* "Stopped" is published; awaiting a tick task that failed raises its exception
StopListening ==
    /\ input_processor = "SherpaOnnxASRProcessor"
    /\ asr_running' = FALSE
    /\ audio_processing_task' =
          IF audio_processing_task \in {"created", "sleeping"}
          THEN "cancelled" ELSE audio_processing_task
    /\ cancelling' = cancelling \ {AudioTask}
    /\ IF audio_processing_task = "failed"
       THEN UNCHANGED <<queues, input_status>>
       ELSE /\ queues' = Publish(queues, AsrStatus, "Stopped")
            /\ input_status' = "Stopped"
    /\ UNCHANGED <<handles, published, received, AppTestRestNoCancel, tasks, test_running,
                   recognition_mode, input_stream, stream_closes, audio_buffer, last_text, stream,
                   transcription_queue, ticks, cancelled_at>>

AsrIdle ==
    /\ recognition_mode = "fast"
    /\ asr_running = FALSE
    /\ input_stream = "none"
    /\ stream_closes = 0
    /\ audio_buffer = 0
    /\ last_text = <<>>
    /\ stream = <<>>
    /\ transcription_queue = <<>>
    /\ audio_processing_task = "None"
    /\ ticks = <<>>
    /\ cancelled_at = -1

\* SherpaOnnxASRProcessor(event_bus) after initialize(config, ...)
AsrInit ==
    /\ recognition_mode \in {"fast", "accurate"}
    /\ asr_running = FALSE
    /\ input_stream = "none"
    /\ stream_closes = 0
    /\ audio_buffer = 0
    /\ last_text = <<>>
    /\ stream = <<>>
    /\ transcription_queue = <<>>
    /\ audio_processing_task = "None"
    /\ ticks = <<>>
    /\ cancelled_at = -1

\* a task has been created for _input_consumer over the initialized processor
AsrAppInit ==
    /\ config_loaded = TRUE
    /\ test_mode = FALSE
    /\ input_type = "voice"
    /\ input_processor = "SherpaOnnxASRProcessor"
    /\ test_running = FALSE
    /\ authenticated = "no"
    /\ run_pc = "idle"
    /\ tasks = [NoTasks EXCEPT ![InputConsumer] = "created"]
    /\ cancelling = {}
    /\ run_cancelled = FALSE
    /\ runLog = <<>>
    /\ input_status = "Ready"

\* a resolver or a user interface may have subscribed to the transcripts
AsrBusInit ==
    /\ queues \in {<<>>, (Transcription :> <<>>)}
    /\ handles = {}
    /\ published = (Transcription :> <<>>)
    /\ received = <<>>


(***************************************************************************)
(* The Utterance Buffer: _audio_callback and the periodic tick, step by    *)
(* step between the points where a coroutine can be suspended              *)
(***************************************************************************)
AsrOthers == <<recognition_mode, asr_running, input_stream, stream_closes, cancelled_at>>

AppendsAnyFrame(is_speech) == TRUE

\* if is_speech: (asr_processor.py:145)
AppendsFrame(is_speech) == is_speech

NeverLocked(lock) == FALSE

\* asyncio.Lock.locked(): "async with self.buffer_lock" waits while it holds
Locked(lock) == lock # "free"

\* the while loop of _audio_callback over the frames in vad_buffer, up to the frame
\* that has to wait for the lock: a speech frame is appended under the lock, any other
\* frame is dropped
RECURSIVE VadLoop(_, _, _)
VadLoop(vad_frames, lock, acc) ==
    IF vad_frames = <<>>
    THEN [rest |-> <<>>, waits |-> FALSE, appended |-> acc.appended,
          speech |-> acc.speech, other |-> acc.other]
    ELSE IF AppendsFrame(Head(vad_frames))
         THEN IF Locked(lock)
              THEN [rest |-> Tail(vad_frames), waits |-> TRUE, appended |-> acc.appended,
                    speech |-> acc.speech + (IF Head(vad_frames) THEN 1 ELSE 0),
                    other |-> acc.other + (IF Head(vad_frames) THEN 0 ELSE 1)]
              ELSE VadLoop(Tail(vad_frames), lock,
                           [appended |-> acc.appended + 1,
                            speech |-> acc.speech + (IF Head(vad_frames) THEN 1 ELSE 0),
                            other |-> acc.other + (IF Head(vad_frames) THEN 0 ELSE 1)])
         ELSE VadLoop(Tail(vad_frames), lock,
                      [appended |-> acc.appended, speech |-> acc.speech,
                       other |-> acc.other + 1])

\* what a pass of the loop leaves: the buffers, the callbacks waiting for the lock and
\* the count of the frames by their class
AfterVadLoop(vad_frames, resumed) ==
    LET out == VadLoop(vad_frames, buffer_lock, [appended |-> resumed, speech |-> 0, other |-> 0])
    IN  /\ vad_buffer' = out.rest
        /\ audio_buffer' = audio_buffer + out.appended
        /\ lock_waiters' = lock_waiters - resumed + (IF out.waits THEN 1 ELSE 0)
        /\ heard' = [speech |-> heard.speech + out.speech, other |-> heard.other + out.other,
                     appended |-> heard.appended + out.appended]

\* one block of the open audio input (blocksize = 2 VAD frames) is handed to
\* _audio_callback, which runs up to its first wait for the lock, or to its end
AudioBlock(first_is_speech, second_is_speech) ==
    /\ input_stream = "open"
    /\ heard.speech + heard.other + Len(vad_buffer) < 2 * MaxBlocks
    /\ AfterVadLoop(vad_buffer \o <<first_is_speech, second_is_speech>>, 0)
    /\ UNCHANGED <<busVars, appVars, AsrOthers, last_text, stream, transcription_queue,
                   audio_processing_task, ticks, buffer_lock, fedLog>>

\* a callback that waited for the lock gets it: its frame is appended and its loop
\* goes on with the frames left in vad_buffer
LockGranted ==
    /\ lock_waiters > 0 /\ ~Locked(buffer_lock)
    /\ AfterVadLoop(vad_buffer, 1)
    /\ UNCHANGED <<busVars, appVars, AsrOthers, last_text, stream, transcription_queue,
                   audio_processing_task, ticks, buffer_lock, fedLog>>

\* the tick wakes from its sleep and takes the lock; with an empty buffer it releases
\* the lock at once, else it publishes "Transcribing"
TickLocks ==
    /\ audio_processing_task = "sleeping" /\ AudioTask \notin cancelling
    /\ ~Locked(buffer_lock)
    /\ Len(fedLog) < MaxTicks
    /\ IF audio_buffer > 0
       THEN /\ buffer_lock' = AudioTask
            /\ audio_processing_task' = "transcribing"
            /\ queues' = Publish(queues, AsrStatus, "Transcribing")
            /\ input_status' = "Transcribing"
       ELSE /\ audio_processing_task' = IF asr_running THEN "sleeping" ELSE "done"
            /\ UNCHANGED <<buffer_lock, queues, input_status>>
    /\ UNCHANGED <<handles, published, received, AppTestRest, tasks, test_running, AsrOthers,
                   audio_buffer, last_text, stream, transcription_queue, ticks,
                   vad_buffer, lock_waiters, heard, fedLog>>

\* _transcribe_np(self.audio_buffer): the buffer is fed to the recognizer; a transcript
\* is published and queued. An exception of the recognizer leaves the tick and the
\* lock is released
TickFeeds(result, is_endpoint, raises) ==
    /\ audio_processing_task = "transcribing"
    /\ LET out == TranscribeNp(recognition_mode, last_text, result, is_endpoint)
           said == ~raises /\ out.text # <<>>
       IN  /\ queues' = IF said THEN Publish(queues, Transcription, out.text) ELSE queues
           /\ published' =
                 IF said
                 THEN [published EXCEPT ![Transcription] = Append(@, Event(Transcription, out.text))]
                 ELSE published
           /\ transcription_queue' =
                 IF said THEN Append(transcription_queue, out.text) ELSE transcription_queue
           /\ last_text' = IF raises THEN last_text ELSE out.last_text
           /\ stream' = IF raises THEN stream ELSE out.stream
           /\ audio_processing_task' = IF raises THEN "failed" ELSE "transcribed"
           /\ buffer_lock' = IF raises THEN "free" ELSE buffer_lock
           /\ fedLog' = Append(fedLog, [fed |-> audio_buffer, cleared |-> -1])
    /\ UNCHANGED <<handles, received, appVars, AsrOthers, audio_buffer, ticks,
                   vad_buffer, lock_waiters, heard>>

\* self.audio_buffer = np.array([]) and "Listening" is published
TickClears ==
    /\ audio_processing_task = "transcribed"
    /\ fedLog' = [fedLog EXCEPT ![Len(fedLog)].cleared = audio_buffer]
    /\ audio_buffer' = 0
    /\ audio_processing_task' = "listening"
    /\ queues' = Publish(queues, AsrStatus, "Listening")
    /\ input_status' = "Listening"
    /\ UNCHANGED <<handles, published, received, AppTestRest, tasks, test_running, AsrOthers,
                   last_text, stream, transcription_queue, ticks, buffer_lock,
                   vad_buffer, lock_waiters, heard>>

\* the end of the "async with" block: the lock is released and the loop goes on
TickUnlocks ==
    /\ audio_processing_task = "listening"
    /\ buffer_lock' = "free"
    /\ audio_processing_task' = IF asr_running THEN "sleeping" ELSE "done"
    /\ UNCHANGED <<busVars, appVars, AsrOthers, audio_buffer, last_text, stream,
                   transcription_queue, ticks, vad_buffer, lock_waiters, heard, fedLog>>

\* audio_processing_task.cancel() reaches the tick where it is suspended: at its sleep,
\* or at an await inside the "async with" block, which releases the lock
TickCancelled ==
    /\ audio_processing_task \in {"sleeping", "transcribing", "transcribed", "listening"}
    /\ audio_processing_task' = "cancelled"
    /\ buffer_lock' = "free"
    /\ UNCHANGED <<busVars, appVars, AsrOthers, audio_buffer, last_text, stream,
                   transcription_queue, ticks, vad_buffer, lock_waiters, heard, fedLog>>

BufIdle ==
    /\ buffer_lock = "free"
    /\ vad_buffer = <<>>
    /\ lock_waiters = 0
    /\ heard = [speech |-> 0, other |-> 0, appended |-> 0]
    /\ fedLog = <<>>

\* start_listening() has opened the audio input and the tick is at its first sleep
AsrListening ==
    /\ recognition_mode \in {"fast", "accurate"}
    /\ asr_running = TRUE
    /\ input_stream = "open"
    /\ stream_closes = 0
    /\ audio_buffer = 0
    /\ last_text = <<>>
    /\ stream = <<>>
    /\ transcription_queue = <<>>
    /\ audio_processing_task = "sleeping"
    /\ ticks = <<>>
    /\ cancelled_at = -1

\* _input_consumer waits in start_listening for a transcript
AsrAppListening ==
    /\ config_loaded = TRUE
    /\ test_mode = FALSE
    /\ input_type = "voice"
    /\ input_processor = "SherpaOnnxASRProcessor"
    /\ test_running = FALSE
    /\ authenticated = "no"
    /\ run_pc = "idle"
    /\ tasks = [NoTasks EXCEPT ![InputConsumer] = "blocked"]
    /\ cancelling = {}
    /\ run_cancelled = FALSE
    /\ runLog = <<>>
    /\ input_status = "Listening"

(***************************************************************************)
(* vts_main: asr_callback and its spam prevention                          *)
(***************************************************************************)
\* cooldown_duration = 60
CooldownDuration == 60

\* hotkey_id in expression_cooldowns and time.time() < expression_cooldowns[hotkey_id]
OnCooldown(cooldowns, hotkey_id, time) ==
    hotkey_id \in DOMAIN cooldowns /\ time < cooldowns[hotkey_id]

\* the for loop of asr_callback from the i-th entry of expression_map on: the position
\* of the first keyword the transcript contains whose hotkey is not on cooldown (a
\* match on cooldown is passed over with continue), 0 when the loop ends without one
RECURSIVE FirstFreeMatch(_, _, _, _, _)
FirstFreeMatch(map, i, text, cooldowns, time) ==
    IF i > Len(map) THEN 0
    ELSE IF /\ IsSubstring(Lower(map[i][1]), text)
            /\ ~OnCooldown(cooldowns, map[i][2], time)
         THEN i
         ELSE FirstFreeMatch(map, i + 1, text, cooldowns, time)

\* consecutive_trigger_count after a hit on hotkey_id
CountAfter(last, count, hotkey_id) == IF hotkey_id = last THEN count + 1 ELSE 1

\* asr_callback(transcribed_text)
AsrCallback(transcribed_text) ==
    /\ Len(mainTrace) < MaxCalls
    /\ LET text == Lower(transcribed_text)
           hit == IF transcribed_text = <<>> THEN 0
                  ELSE FirstFreeMatch(main_expression_map, 1, text, expression_cooldowns,
                                      wall_clock)
           hotkey_id == main_expression_map[hit][2]
           count == CountAfter(last_triggered_expression, consecutive_trigger_count, hotkey_id)
       IN  /\ last_triggered_expression' =
                 IF hit = 0 THEN last_triggered_expression ELSE hotkey_id
           /\ consecutive_trigger_count' = IF hit = 0 THEN consecutive_trigger_count ELSE count
           /\ expression_cooldowns' =
                 IF hit # 0 /\ count = 2
                 THEN [h \in DOMAIN expression_cooldowns \cup {hotkey_id} |->
                          IF h = hotkey_id THEN wall_clock + CooldownDuration
                          ELSE expression_cooldowns[h]]
                 ELSE expression_cooldowns
           /\ mainTrace' = Append(mainTrace,
                                  [text |-> transcribed_text,
                                   at   |-> wall_clock,
                                   out  |-> IF hit = 0 THEN <<>> ELSE <<hotkey_id>>])
    /\ UNCHANGED <<main_expression_map, wall_clock>>

\* time passes between two transcripts
WallClockAdvances(d) ==
    /\ wall_clock + d <= MaxWallClock
    /\ wall_clock' = wall_clock + d
    /\ UNCHANGED <<main_expression_map, last_triggered_expression, consecutive_trigger_count,
                   expression_cooldowns, mainTrace>>

\* the expressions of vts_config.yaml
MainMaps == { << <<hello, "hk1">> >>, << <<<<"a">>, "hk1">>, <<<<"B">>, "hk2">> >> }

MainTranscripts == {hello, <<"a">>, <<"b">>, <<>>}

MainElapsed == {30, 60}

MainIdle ==
    /\ main_expression_map = <<>>
    /\ last_triggered_expression = "None"
    /\ consecutive_trigger_count = 0
    /\ expression_cooldowns = <<>>
    /\ wall_clock = 0
    /\ mainTrace = <<>>

\* the globals of vts_main after main() has loaded the expressions
MainInit ==
    /\ main_expression_map \in MainMaps
    /\ last_triggered_expression = "None"
    /\ consecutive_trigger_count = 0
    /\ expression_cooldowns = <<>>
    /\ wall_clock = 0
    /\ mainTrace = <<>>


(***************************************************************************)
(* Specifications                                                          *)
(***************************************************************************)
OtherIdle == BufIdle /\ MainIdle

BusIdle ==
    /\ queues = <<>>
    /\ handles = {}
    /\ published = <<>>
    /\ received = <<>>

ResIdle ==
    /\ now = 0
    /\ expression_map = <<>>
    /\ active_cooldowns = <<>>
    /\ trace = <<>>
    /\ resolver_error = "None"

SyncIdle ==
    /\ config_expressions = <<>>
    /\ saved_expressions = <<>>
    /\ session_map = <<>>
    /\ lastSync = NoSync
    /\ prevSync = NoSync

\* the resolver, its input and the gateway consumer over the bus
Init == ResBusInit /\ ResInit /\ EmoInit /\ SyncIdle /\ ConIdle /\ AppIdle /\ AsrIdle /\ GwIdle /\ EhIdle /\ OtherIdle

Next ==
    \/ (ResolverStart /\ UNCHANGED <<emoVars, syncVars, conVars, appVars, asrVars, ehVars, otherVars, gwVars>>)
    \/ (ResolveIntent /\ UNCHANGED <<emoVars, syncVars, conVars, appVars, asrVars, ehVars, otherVars, gwVars>>)
    \/ (\E text \in Transcripts : PublishTranscript(text) /\ UNCHANGED <<emoVars, syncVars, conVars, appVars, asrVars, ehVars, otherVars, gwVars>>)
    \/ (GatewayStart /\ UNCHANGED <<emoVars, syncVars, conVars, appVars, asrVars, ehVars, otherVars, gwVars>>)
    \/ (GatewayStep /\ UNCHANGED <<emoVars, syncVars, conVars, appVars, asrVars, ehVars, otherVars, gwVars>>)
    \/ (Tick /\ UNCHANGED <<emoVars, syncVars, conVars, appVars, asrVars, ehVars, otherVars, gwVars>>)

Spec == Init /\ [][Next]_vars

\* the bus with two consumers
InitBus == BusInit /\ ResIdle /\ EmoInit /\ SyncIdle /\ ConIdle /\ AppIdle /\ AsrIdle /\ GwIdle /\ EhIdle /\ OtherIdle

BusRest == UNCHANGED <<resVars, emoVars, syncVars, conVars, appVars, asrVars, ehVars, otherVars, gwVars>>

NextBus ==
    \/ (\E t \in BusTopics, p \in BusPayloads :
            BusPublish(t, p) /\ UNCHANGED <<resVars, emoVars, syncVars, conVars, appVars, asrVars, ehVars, otherVars, gwVars>>)
    \/ (\E c \in BusConsumers, t \in BusTopics :
            BusSubscribe(c, t) /\ UNCHANGED <<resVars, emoVars, syncVars, conVars, appVars, asrVars, ehVars, otherVars, gwVars>>)
    \/ (\E c \in BusConsumers, t \in BusTopics :
            BusGet(c, t) /\ UNCHANGED <<resVars, emoVars, syncVars, conVars, appVars, asrVars, ehVars, otherVars, gwVars>>)

SpecBus == InitBus /\ [][NextBus]_vars

\* the bus with one topic: two consumers compete for its events
NextTopic ==
    \/ (\E p \in BusPayloads : BusPublish("test_event", p) /\ BusRest)
    \/ (\E c \in BusConsumers : BusSubscribe(c, "test_event") /\ BusRest)
    \/ (\E c \in BusConsumers : BusGet(c, "test_event") /\ BusRest)

SpecTopic == InitBus /\ [][NextTopic]_vars

\* the emotion detector and the subscription of its consumer
InitEmotion == EmoBusInit /\ ResIdle /\ EmoInit /\ SyncIdle /\ ConIdle /\ AppIdle /\ AsrIdle /\ GwIdle /\ EhIdle /\ OtherIdle

NextEmotion ==
    \/ (\E opened \in BOOLEAN : StartDetection(opened) /\ UNCHANGED <<resVars, syncVars, conVars, appVars, asrVars, ehVars, otherVars, gwVars>>)
    \/ (\E emotion_index \in ClassIndexes :
            DetectFace(emotion_index) /\ UNCHANGED <<resVars, syncVars, conVars, appVars, asrVars, ehVars, otherVars, gwVars>>)
    \/ (DetectNoFace /\ UNCHANGED <<resVars, syncVars, conVars, appVars, asrVars, ehVars, otherVars, gwVars>>)
    \/ (FrameReadFails /\ UNCHANGED <<resVars, syncVars, conVars, appVars, asrVars, ehVars, otherVars, gwVars>>)
    \/ (StopDetection /\ UNCHANGED <<resVars, syncVars, conVars, appVars, asrVars, ehVars, otherVars, gwVars>>)
    \/ (EmotionHandlerStart /\ UNCHANGED <<resVars, syncVars, conVars, appVars, asrVars, ehVars, otherVars, gwVars>>)

SpecEmotion == InitEmotion /\ [][NextEmotion]_vars

\* synchronization passes against changing hotkey lists
InitSync == BusIdle /\ ResIdle /\ EmoInit /\ SyncInit /\ ConIdle /\ AppIdle /\ AsrIdle /\ GwIdle /\ EhIdle /\ OtherIdle

NextSync ==
    \E availableHotkeys \in HotkeyLists :
        SynchronizeExpressions(availableHotkeys) /\ UNCHANGED <<busVars, resVars, emoVars, conVars, appVars, asrVars, ehVars, otherVars, gwVars>>

SpecSync == InitSync /\ [][NextSync]_vars

\* one call of connect()
InitConnect == ConBusInit /\ ResIdle /\ EmoInit /\ SyncIdle /\ ConInit /\ AppIdle /\ AsrIdle /\ GwIdle /\ EhIdle /\ OtherIdle

NextConnect ==
    \/ (ConnectCall /\ UNCHANGED <<resVars, emoVars, syncVars, appVars, asrVars, ehVars, otherVars, gwVars>>)
    \/ (\E ok \in BOOLEAN : ConnectAttempt(ok) /\ UNCHANGED <<resVars, emoVars, syncVars, appVars, asrVars, ehVars, otherVars, gwVars>>)
    \/ (ConnectWake /\ UNCHANGED <<resVars, emoVars, syncVars, appVars, asrVars, ehVars, otherVars, gwVars>>)

SpecConnect == InitConnect /\ [][NextConnect]_vars

\* ApplicationCore.run() from its call to its end
InitApp == AppBusInit /\ ResIdle /\ EmoInit /\ AppSyncInit /\ ConIdle /\ AppInit /\ AsrIdle /\ GwIdle /\ EhIdle /\ OtherIdle

DeliverCancellation ==
    \E t \in TaskNames :
        TaskCancelled(t) /\ UNCHANGED <<busVars, resVars, emoVars, syncVars, conVars, asrVars, ehVars, otherVars, gwVars>>

Shutdown == RunShutdown /\ UNCHANGED <<resVars, syncVars, conVars, asrVars, ehVars, otherVars, gwVars>>

AsrRest == UNCHANGED <<resVars, emoVars, syncVars, conVars, gwVars, ehVars, otherVars>>

NextApp ==
    \/ (RunCall /\ UNCHANGED <<resVars, emoVars, syncVars, asrVars, ehVars, otherVars, gwVars>>)
    \/ (\E ok \in BOOLEAN : RunConnectAttempt(ok) /\ UNCHANGED <<resVars, emoVars, syncVars, asrVars, ehVars, otherVars, gwVars>>)
    \/ (RunConnectWake /\ UNCHANGED <<resVars, emoVars, syncVars, asrVars, ehVars, otherVars, gwVars>>)
    \/ (\E result \in AuthResults :
            Authenticate(result) /\ UNCHANGED <<resVars, emoVars, syncVars, conVars, asrVars, ehVars, otherVars, gwVars>>)
    \/ (\E availableHotkeys \in AppHotkeyLists, loaded \in BOOLEAN :
            SynchronizeAndStart(availableHotkeys, loaded) /\ UNCHANGED <<emoVars, conVars, asrVars, ehVars, otherVars, gwVars>>)
    \/ (TaskResolverStart /\ UNCHANGED <<emoVars, syncVars, conVars, AppRest, asrVars, ehVars, otherVars, gwVars>>)
    \/ (TaskResolveIntent /\ UNCHANGED <<emoVars, syncVars, conVars, AppRest, asrVars, ehVars, otherVars, gwVars>>)
    \/ (TaskGatewayStart /\ UNCHANGED <<emoVars, syncVars, conVars, AppRest, asrVars, ehVars, otherVars, gwVars>>)
    \/ (\E outcome \in TriggerOutcomes :
            TaskGatewayStep(outcome) /\ UNCHANGED <<emoVars, syncVars, conVars, AppRest, asrVars, ehVars, otherVars>>)
    \/ (TaskEmotionHandlerStart /\ UNCHANGED <<resVars, syncVars, conVars, AppRest, asrVars, ehVars, otherVars, gwVars>>)
    \/ (TestStartListening /\ UNCHANGED <<resVars, emoVars, syncVars, conVars, AppTestRest, asrVars, ehVars, otherVars, gwVars>>)
    \/ (TestPhraseSent /\ UNCHANGED <<resVars, emoVars, syncVars, conVars, AppTestRest, asrVars, ehVars, otherVars, gwVars>>)
    \/ (\E opened \in BOOLEAN :
            TaskStartDetection(opened) /\ UNCHANGED <<resVars, syncVars, conVars, AppRest, asrVars, ehVars, otherVars, gwVars>>)
    \/ (\E emotion_index \in ClassIndexes :
            TaskDetectFace(emotion_index) /\ UNCHANGED <<resVars, syncVars, conVars, AppRest, asrVars, ehVars, otherVars, gwVars>>)
    \/ (TaskDetectNoFace /\ UNCHANGED <<resVars, syncVars, conVars, AppRest, asrVars, ehVars, otherVars, gwVars>>)
    \/ (TaskFrameReadFails /\ UNCHANGED <<resVars, syncVars, conVars, AppRest, asrVars, ehVars, otherVars, gwVars>>)
    \/ (CancelRun /\ UNCHANGED <<busVars, resVars, emoVars, syncVars, conVars, asrVars, ehVars, otherVars, gwVars>>)
    \/ DeliverCancellation
    \/ Shutdown

SpecApp == InitApp /\ [][NextApp]_vars

\* the voice pipeline: SherpaOnnxASRProcessor and the task that consumes it
InitAsr == AsrBusInit /\ ResIdle /\ EmoInit /\ SyncIdle /\ ConIdle /\ AsrAppInit /\ AsrInit /\ GwIdle /\ EhIdle /\ OtherIdle

NextAsr ==
    \/ (\E opened \in BOOLEAN : StartListening(opened) /\ AsrRest)
    \/ (AudioTaskStart /\ AsrRest)
    \/ (\E first_is_speech, second_is_speech \in BOOLEAN :
            AudioCallback(first_is_speech, second_is_speech) /\ AsrRest)
    \/ (\E result \in Results, is_endpoint, raises \in BOOLEAN :
            RecognitionTick(result, is_endpoint, raises) /\ AsrRest)
    \/ (ConsumerGet /\ AsrRest)
    \/ (CancelConsumer /\ AsrRest)
    \/ (ConsumerCancelled /\ AsrRest)
    \/ (AudioTaskCancelled /\ AsrRest)
    \/ (StopListening /\ AsrRest)

SpecAsr == InitAsr /\ [][NextAsr]_vars

\* the consumers of the dispatch topic and the requests they send
InitGateway ==
    GwBusInit /\ ResIdle /\ EmoInit /\ SyncIdle /\ ConIdle /\ AppIdle /\ AsrIdle /\ GwIdle /\ EhIdle /\ OtherIdle

GwRest == UNCHANGED <<resVars, emoVars, syncVars, conVars, appVars, asrVars, ehVars, otherVars>>

NextGateway ==
    \/ (\E hotkey_id \in HotkeyIds : PublishDispatch(hotkey_id) /\ GwRest)
    \/ (GatewayStart /\ UNCHANGED requests /\ GwRest)
    \/ (\E outcome \in TriggerOutcomes : HandleHotkeyEvent(outcome) /\ GwRest)
    \/ (AgentStart /\ GwRest)
    \/ (\E outcome \in TriggerOutcomes : AgentStep(outcome) /\ GwRest)
    \/ (UiListenerStart /\ GwRest)
    \/ (UiHotkeyStep /\ GwRest)

SpecGateway == InitGateway /\ [][NextGateway]_vars

\* the two paths to a trigger: transcripts through the resolver, emotions through
\* the emotion handler, under one clock
InitTrigger ==
    /\ TriggerBusInit /\ TriggerResInit /\ EmoInit /\ SyncIdle /\ ConIdle /\ AppIdle
    /\ AsrIdle /\ GwIdle /\ EhInit /\ OtherIdle

TriggerRest == UNCHANGED <<emoVars, syncVars, conVars, appVars, asrVars, otherVars>>

NextTrigger ==
    \/ (ResolverStart /\ UNCHANGED <<gwVars, ehVars, otherVars>> /\ TriggerRest)
    \/ (ResolveIntent /\ UNCHANGED <<gwVars, ehVars, otherVars>> /\ TriggerRest)
    \/ (\E text \in HeardTexts : HearTranscript(text) /\ UNCHANGED <<resVars, gwVars, ehVars, otherVars>> /\ TriggerRest)
    \/ (EmotionHandlerStart /\ UNCHANGED <<resVars, gwVars, ehVars, otherVars>> /\ TriggerRest)
    \/ (\E label \in {"neutral", "happiness", "sadness"} :
            PublishEmotion(label) /\ UNCHANGED <<resVars, gwVars, ehVars, otherVars>> /\ TriggerRest)
    \/ (\E outcome \in TriggerOutcomes :
            HandleEmotionEvent(outcome) /\ UNCHANGED resVars /\ TriggerRest)
    \/ (\E d \in Elapsed : ClockAdvances(d) /\ UNCHANGED <<busVars, gwVars, ehVars, otherVars>> /\ TriggerRest)

SpecTrigger == InitTrigger /\ [][NextTrigger]_vars

\* emotion mode: the emotion handler and the dispatch consumer of one ApplicationCore
EmotionModeBusInit ==
    /\ queues = <<>>
    /\ handles = {}
    /\ published = (EmotionDetected :> <<>>)
    /\ received = [h \in {<<EmotionHandler, EmotionDetected>>, <<Gateway, Hotkey>>} |-> <<>>]

InitEmotionMode ==
    /\ EmotionModeBusInit /\ TriggerResInit /\ EmoInit /\ SyncIdle /\ ConIdle /\ AppIdle
    /\ AsrIdle /\ GwIdle /\ EhInit /\ OtherIdle

NextEmotionMode ==
    \/ (EmotionHandlerStart /\ UNCHANGED <<resVars, gwVars, ehVars, otherVars>> /\ TriggerRest)
    \/ (GatewayStart /\ UNCHANGED <<gwVars, ehVars, otherVars>> /\ TriggerRest)
    \/ (\E label \in {"neutral", "happiness", "sadness"} :
            PublishEmotion(label) /\ UNCHANGED <<resVars, gwVars, ehVars, otherVars>> /\ TriggerRest)
    \/ (\E outcome \in TriggerOutcomes :
            HandleEmotionEvent(outcome) /\ UNCHANGED resVars /\ TriggerRest)
    \/ (\E outcome \in TriggerOutcomes :
            HandleHotkeyEvent(outcome) /\ UNCHANGED <<ehVars, otherVars>> /\ TriggerRest)
    \/ (\E d \in Elapsed : ClockAdvances(d) /\ UNCHANGED <<busVars, gwVars, ehVars, otherVars>> /\ TriggerRest)

SpecEmotionMode == InitEmotionMode /\ [][NextEmotionMode]_vars

\* asr_callback of vts_main under the transcripts of one session
InitMain ==
    /\ BusIdle /\ ResIdle /\ EmoInit /\ SyncIdle /\ ConIdle /\ AppIdle /\ AsrIdle /\ GwIdle
    /\ EhIdle /\ BufIdle /\ MainInit

MainRest ==
    UNCHANGED <<busVars, resVars, emoVars, syncVars, conVars, appVars, asrVars, gwVars, ehVars,
                bufVars>>

NextMain ==
    \/ (\E transcribed_text \in MainTranscripts : AsrCallback(transcribed_text) /\ MainRest)
    \/ (\E d \in MainElapsed : WallClockAdvances(d) /\ MainRest)

SpecMain == InitMain /\ [][NextMain]_vars


(***************************************************************************)

\* the buffer between the capture callback and the tick
InitBuffer ==
    /\ AsrBusInit /\ ResIdle /\ EmoInit /\ SyncIdle /\ ConIdle /\ AsrAppListening
    /\ AsrListening /\ GwIdle /\ EhIdle /\ BufIdle /\ MainIdle

BufferRest == UNCHANGED <<resVars, emoVars, syncVars, conVars, gwVars, ehVars, mainVars>>

NextBuffer ==
    \/ (\E first_is_speech, second_is_speech \in BOOLEAN :
            AudioBlock(first_is_speech, second_is_speech) /\ BufferRest)
    \/ (LockGranted /\ BufferRest)
    \/ (TickLocks /\ BufferRest)
    \/ (\E result \in Results, is_endpoint, raises \in BOOLEAN :
            TickFeeds(result, is_endpoint, raises) /\ BufferRest)
    \/ (TickClears /\ BufferRest)
    \/ (TickUnlocks /\ BufferRest)
    \/ (TickCancelled /\ BufferRest)

SpecBuffer == InitBuffer /\ [][NextBuffer]_vars


(* Properties of the event bus (SpecBus)                                   *)
(***************************************************************************)
RECURSIVE ReceivedCount(_, _)
ReceivedCount(consumers, t) ==
    IF consumers = {} THEN 0
    ELSE LET c == CHOOSE x \in consumers : TRUE
         IN  Len(received[<<c, t>>]) + ReceivedCount(consumers \ {c}, t)

\* C1: for every topic T that a single consumer receives from, the events that consumer
\* has received, followed by those still pending in T's queue, are the events published
\* to T, in the order of publication and with topic name and payload unchanged.
C1_FifoSingleConsumer ==
    \A t \in BusTopics, c \in BusConsumers :
        (/\ <<c, t>> \in handles
         /\ \A d \in BusConsumers \ {c} : received[<<d, t>>] = <<>>)
        => received[<<c, t>>] \o Pending(queues, t) = published[t]

\* C2: a publish on a topic creates the topic's queue when it is absent and enqueues the
\* event, so no published event is lost: each is pending or has been received.
C2_PublishCreatesQueue ==
    \A t \in BusTopics :
        published[t] # <<>> =>
            /\ t \in DOMAIN queues
            /\ Len(published[t]) = Len(Pending(queues, t)) + ReceivedCount(BusConsumers, t)

(***************************************************************************)
(* Properties of the resolver (Spec)                                       *)
(***************************************************************************)
Keyword(j)  == expression_map[j][1]
ActionOf(j) == expression_map[j][2].hotkeyID

\* the positions of the keys the lowercased transcript contains
Matches(text) == {j \in 1..Len(expression_map) : IsSubstring(Keyword(j), Lower(text))}
FirstMatch(text) == CHOOSE j \in Matches(text) : \A m \in Matches(text) : j <= m

\* the action has a recorded expiry and the time is earlier than it
BeforeExpiry(cooldowns, hotkey_id, time) ==
    hotkey_id \in DOMAIN cooldowns /\ time < cooldowns[hotkey_id]

C4_ScenarioB ==
    (/\ expression_map = HelloMap
     /\ \A i \in 1..Len(trace) : trace[i].text = hello)
    => /\ Len(trace) >= 1 => (trace[1].out = <<"hk1">> /\ ~trace[1].raised)
       /\ Len(trace) >= 2 => trace[2].out = <<"hk1">>
       /\ (Len(trace) >= 3 /\ trace[3].at < trace[2].at + 10) => trace[3].out = <<>>
       /\ (/\ Len(trace) >= 4
           /\ trace[3].at < trace[2].at + 10
           /\ trace[4].at >= trace[2].at + 10) => trace[4].out = <<"hk1">>

\* C5: while the time is earlier than the recorded expiry of the action a transcript
\* resolves to, nothing is dispatched and the cooldown state is left unchanged; from the
\* expiry on, the action is dispatched again: a transcript waiting for the resolver
\* whose action has no expiry ahead of the clock finds the resolver in its loop.
C5_CooldownGate ==
    /\ \A i \in 1..Len(trace) :
          Matches(trace[i].text) # {} =>
              LET j == FirstMatch(trace[i].text)
                  e == trace[i]
              IN  (Keyword(j) # <<>> /\ ActionOf(j) \in DOMAIN e.before) =>
                      IF e.at < e.before[ActionOf(j)]
                      THEN e.out = <<>> /\ e.after = e.before
                      ELSE e.out = <<ActionOf(j)>>
    /\ (Transcription \in DOMAIN queues /\ queues[Transcription] # <<>>) =>
          LET text == Head(queues[Transcription]).payload
          IN  (/\ Matches(text) # {}
               /\ ~BeforeExpiry(active_cooldowns, ActionOf(FirstMatch(text)), now))
              => resolver_error = "None"


(***************************************************************************)
(* Properties of the emotion detector (SpecEmotion)                        *)
(***************************************************************************)
\* the label last passed to publish before the i-th frame, 'neutral' when there is none
RECURSIVE LastEmittedBefore(_)
LastEmittedBefore(i) ==
    IF i = 1 THEN "neutral"
    ELSE IF frames[i - 1].out # <<>> THEN frames[i - 1].out[1]
    ELSE LastEmittedBefore(i - 1)

FrameLabels == [i \in 1..Len(frames) |-> frames[i].label]

RECURSIVE EmittedThrough(_)
EmittedThrough(n) == IF n = 0 THEN <<>> ELSE EmittedThrough(n - 1) \o frames[n].out

\* C6: an emotion event is published for a classified frame if and only if its label
\* differs from the label published last (initially 'neutral'); no two consecutive events
\* carry the same label; a frame without a face publishes nothing and leaves the remembered
\* label as it was; the labels neutral, happiness, happiness, sadness publish exactly
\* happiness and sadness.
C6_EdgeTriggered ==
    /\ \A i \in 1..Len(frames) :
           IF frames[i].label = NoFace
           THEN /\ frames[i].out = <<>>
                /\ frames[i].after = IF i = 1 THEN "neutral" ELSE frames[i - 1].after
           ELSE /\ frames[i].label # LastEmittedBefore(i) => frames[i].out = <<frames[i].label>>
                /\ frames[i].label = LastEmittedBefore(i) => frames[i].out = <<>>
    /\ emitted = EmittedThrough(Len(frames))
    /\ Len(published[EmotionDetected]) = Len(emitted)
    /\ \A n \in 1..Len(emitted) :
           published[EmotionDetected][n] = Event(EmotionDetected, [emotion |-> emitted[n]])
    /\ \A n \in 1..(Len(emitted) - 1) : emitted[n] # emitted[n + 1]
    /\ FrameLabels = <<"neutral", "happiness", "happiness", "sadness">>
       => emitted = <<"happiness", "sadness">>

\* Scenario C has run: four frames, two events
C6_Witness ==
    /\ FrameLabels = <<"neutral", "happiness", "happiness", "sadness">>
    /\ emitted = <<"happiness", "sadness">>

(***************************************************************************)
(* Properties of the synchronization (SpecSync)                            *)
(***************************************************************************)
\* C7: a pass over the same expressions as the pass before it, on the mapping that pass
\* left, yields the same mapping and the same session expression map, and saves nothing.
C7_Idempotent ==
    prevSync.ran =>
        /\ lastSync.before = IF prevSync.wrote THEN prevSync.result ELSE prevSync.before
        /\ lastSync.result = prevSync.result
        /\ lastSync.map = prevSync.map
        /\ ~lastSync.wrote
        /\ config_expressions = lastSync.before
        /\ saved_expressions = lastSync.before

\* a pass that changed the mapping was followed by a pass over the same expressions
C7_Witness ==
    /\ prevSync.ran /\ prevSync.wrote
    /\ lastSync.remote # <<>>
    /\ lastSync.map # <<>>

\* the entry a new expression is to get: its name, one placeholder keyword, 60 s
SynthesizedEntry(name) ==
    [name |-> name, keywords |-> <<NEW_KEYWORD_ \o ReplaceSpace(name)>>, cooldown_s |-> 60]

ScenarioDRemote == <<VtsHotkey("a.json", <<"A">>, "hk1", "ToggleExpression")>>

\* C8 (as stated): for every remote action whose source key the local mapping lacks, the
\* output mapping holds a synthesized entry with the action's display name, one
\* placeholder keyword and the default cooldown.
C8_EveryNewKeySynthesized ==
    \A i \in 1..Len(lastSync.remote) :
        LET exp == lastSync.remote[i]
        IN  ~DictHas(lastSync.before, exp.file) =>
                /\ DictHas(lastSync.result, exp.file)
                /\ DictGet(lastSync.result, exp.file) = SynthesizedEntry(exp.name)

\* C8 (amended): the same for every remote action that has a source key and a display
\* name and is the last such action with its source key; actions without a source key or
\* a display name get no entry; Scenario D yields exactly the one entry and saves it.
C8_NamedNewKeySynthesized ==
    /\ \A i \in 1..Len(lastSync.remote) :
           LET exp == lastSync.remote[i]
               named(e) == e.file # "" /\ e.name # <<>>
           IN  (/\ named(exp)
                /\ ~DictHas(lastSync.before, exp.file)
                /\ \A k \in (i + 1)..Len(lastSync.remote) :
                       ~(named(lastSync.remote[k]) /\ lastSync.remote[k].file = exp.file))
               => /\ DictHas(lastSync.result, exp.file)
                  /\ DictGet(lastSync.result, exp.file) = SynthesizedEntry(exp.name)
    /\ \A k \in KeySet(lastSync.result) :
           \E i \in 1..Len(lastSync.remote) :
               /\ lastSync.remote[i].file = k
               /\ lastSync.remote[i].file # "" /\ lastSync.remote[i].name # <<>>
    /\ (lastSync.ran /\ lastSync.remote = ScenarioDRemote /\ lastSync.before = <<>>)
       => /\ lastSync.result = << <<"a.json", SynthesizedEntry(<<"A">>)>> >>
          /\ lastSync.wrote
          /\ saved_expressions = lastSync.result

\* Scenario D has run
C8_Witness ==
    /\ lastSync.ran
    /\ lastSync.remote = ScenarioDRemote
    /\ lastSync.before = <<>>
    /\ lastSync.wrote

RemoteFiles == {lastSync.remote[i].file : i \in 1..Len(lastSync.remote)}

\* C9 (as stated): after a pass, whatever the remote list (the empty list too), the local
\* and the saved mapping hold no source key the remote list lacks.
C9_NoStaleKeys ==
    lastSync.ran =>
        /\ KeySet(config_expressions) \subseteq RemoteFiles
        /\ KeySet(saved_expressions) \subseteq RemoteFiles

\* C9 (amended): so it is after a pass over a non-empty remote list; a pass over an empty
\* list leaves the local and the saved mapping as they were and saves nothing.
C9_NoStaleKeysUnlessEmpty ==
    lastSync.ran =>
        IF lastSync.remote # <<>>
        THEN /\ KeySet(config_expressions) \subseteq RemoteFiles
             /\ KeySet(saved_expressions) \subseteq RemoteFiles
        ELSE /\ config_expressions = lastSync.before
             /\ saved_expressions = lastSync.before
             /\ ~lastSync.wrote

\* a pass over a non-empty list dropped a stale entry without adding one
C9_Witness ==
    /\ lastSync.ran
    /\ lastSync.remote # <<>>
    /\ KeySet(config_expressions) \subseteq KeySet(lastSync.before)
    /\ \E k \in KeySet(lastSync.before) : k \notin KeySet(config_expressions)

\* C10: for every mapped expression whose hotkey id is known, the session expression map
\* has an entry under the lowercased form of each of its keywords and of its name.
C10_LowercasedKeys ==
    lastSync.ran =>
        \A n \in 1..Len(lastSync.result) :
            LET exp_file == lastSync.result[n][1]
                exp_data == lastSync.result[n][2]
                known == \E i \in 1..Len(lastSync.remote) :
                             /\ lastSync.remote[i].file = exp_file
                             /\ lastSync.remote[i].hotkeyID # ""
                             /\ \A k \in (i + 1)..Len(lastSync.remote) :
                                    lastSync.remote[k].file # exp_file
            IN  known =>
                    /\ DictHas(session_map, Lower(exp_data.name))
                    /\ \A m \in 1..Len(exp_data.keywords) :
                           DictHas(session_map, Lower(exp_data.keywords[m]))

(***************************************************************************)
(* Properties of connect() (SpecConnect)                                   *)
(***************************************************************************)
AttemptsIn(log) == {i \in DOMAIN log : log[i].op = "attempt"}
SleepsIn(log)   == {i \in DOMAIN log : log[i].op = "sleep"}

\* C11: connect() makes at most max_retries attempts; consecutive attempts are separated
\* by exactly one sleep of retry_delay; nothing is attempted after a successful attempt;
\* and the max_retries-th failed attempt is followed by the publication of
\* "Connection Failed" and the raise, with no sleep and no further attempt.
C11_BoundedRetry ==
    LET A == AttemptsIn(connLog)
        S == SleepsIn(connLog)
        n == Len(connLog)
    IN  /\ Cardinality(A) <= max_retries
        /\ \A i \in S : /\ connLog[i].delay = retry_delay
                        /\ i - 1 \in A /\ ~connLog[i - 1].ok
                        /\ Cardinality({j \in A : j < i}) < max_retries
        /\ \A i \in A : (\E j \in A : j > i) => (i + 1 \in S /\ i + 2 \in A)
        /\ \A i \in A : connLog[i].ok =>
              /\ connect_pc = "returned"
              /\ \A j \in (i + 1) .. n : connLog[j] = Status("Connected")
        /\ \A i \in A : (~connLog[i].ok /\ Cardinality({j \in A : j <= i}) = max_retries) =>
              /\ connect_pc = "raised"
              /\ i + 1 = n
              /\ connLog[n] = Status("Connection Failed")
        /\ connect_pc = "raised" => (n \in DOMAIN connLog /\ n - 1 \in A)

\* the default five attempts have all failed and connect() has raised
C11_Witness ==
    /\ max_retries = DefaultMaxRetries
    /\ Cardinality(AttemptsIn(connLog)) = DefaultMaxRetries
    /\ Cardinality(SleepsIn(connLog)) = DefaultMaxRetries - 1
    /\ connect_pc = "raised"

(***************************************************************************)
(* Properties of ApplicationCore.run() (SpecApp)                           *)
(***************************************************************************)
\* C12: when authentication at start-up has not succeeded (the endpoint refused the
\* plugin, or the call raised), run() has failed, no synchronization pass was made
\* and no task was created.
C12_AuthFailureStopsStartup ==
    authenticated \in {"refused", "raised"} =>
        /\ run_pc = "raised"
        /\ ~lastSync.ran
        /\ tasks = NoTasks

Finished(t) == tasks[t] \in {"none", "done", "cancelled", "failed"}

EndsWith(log, tail) ==
    /\ Len(log) >= Len(tail)
    /\ SubSeq(log, Len(log) - Len(tail) + 1, Len(log)) = tail

\* C13: cancelling run() while it awaits its tasks cancels every task it created
\* (resolver, input consumer, dispatch consumer, and the emotion consumer in emotion
\* mode): after run() was cancelled at gather(), every task has ended or has its
\* cancellation pending, and when run() has returned every task has ended and the last
\* calls of run() were disconnect() and the stop of the input processor.
C13_CancelReachesEveryTask ==
    (run_cancelled /\ run_pc \in {"gather", "returned"}) =>
        /\ \A t \in TaskNames : Finished(t) \/ t \in cancelling
        /\ run_pc = "returned" =>
              /\ \A t \in TaskNames : Finished(t)
              /\ \/ EndsWith(runLog, <<"cancel", "disconnect", "stop_listening">>)
                 \/ EndsWith(runLog, <<"cancel", "disconnect", "stop_detection">>)
              /\ input_processor = "CnnEmotionDetector" =>
                    (EndsWith(runLog, <<"stop_detection">>) /\ ~running)
              /\ input_processor = "TestInputProcessor" =>
                    (EndsWith(runLog, <<"stop_listening">>) /\ ~test_running)

StillRunning(t) == tasks[t] \in {"created", "blocked"}

\* C16: when the webcam of the emotion pipeline could not be opened, the pipeline has
\* published its error status and its task has ended, while the resolver and the
\* dispatch consumer go on and run() has not failed; and with the voice pipeline as the
\* input processor, whatever the audio input does, run() has not failed either.
C16_OpenFailureContained ==
    /\ (cap = "failed" /\ ~run_cancelled) =>
          /\ input_status = "Error: Webcam not found"
          /\ tasks[InputConsumer] = "done"
          /\ StillRunning(Resolver) /\ StillRunning(Gateway)
          /\ run_pc = "gather"
    /\ input_processor = "SherpaOnnxASRProcessor" => run_pc # "raised"


\* C14: the audio input is never closed twice; once the listening voice pipeline has been
\* cancelled the audio input is closed exactly once, the tick task cannot run any more
\* and no transcript is published after the cancellation.
C14_CancelClosesStreamOnce ==
    /\ stream_closes <= 1
    /\ cancelled_at >= 0 =>
          /\ input_stream = "closed" /\ stream_closes = 1
          /\ audio_processing_task \in {"created", "sleeping"} => AudioTask \in cancelling
          /\ Len(published[Transcription]) = cancelled_at

\* cancelled in the middle of an utterance: speech was still in the buffer
C14_Witness ==
    /\ cancelled_at >= 0
    /\ audio_buffer > 0
    /\ audio_processing_task = "cancelled"
    /\ input_status = "Stopped"

\* C15: a tick in which the recognizer raised still cleared the buffer, and the tick
\* task did not end with it.
C15_RecognizerFailureContained ==
    /\ \A i \in 1 .. Len(ticks) : ticks[i].raised => ticks[i].buffer = 0
    /\ audio_processing_task # "failed"


\* the requests one consumer of the dispatch topic has sent
RequestsBy(by) == SelectSeq(requests, LAMBDA r : r.by = by)

\* C17: the gateway consumer has sent exactly one trigger request per dispatch event it
\* received, in the order received and whatever the outcome of the earlier requests: a
\* failed request is not sent again.
C17_FailedTriggerNotRetried ==
    /\ Len(RequestsBy(Gateway)) = Len(received[<<Gateway, Hotkey>>])
    /\ \A i \in 1 .. Len(RequestsBy(Gateway)) :
          RequestsBy(Gateway)[i].hotkey_id = received[<<Gateway, Hotkey>>][i].payload

\* a request that raised and one that got an error response, each followed by the
\* request of the next event
C17_Witness ==
    /\ Len(RequestsBy(Gateway)) = 3
    /\ RequestsBy(Gateway)[1].outcome = "exception"
    /\ RequestsBy(Gateway)[2].outcome = "error_response"
    /\ RequestsBy(Gateway)[1].hotkey_id # RequestsBy(Gateway)[2].hotkey_id

\* C18: the requests VTSWebSocketAgent.run has sent are, one for one and in order, the
\* payloads of the events it received on the dispatch topic.
C18_AgentOneRequestPerEvent ==
    [i \in 1 .. Len(RequestsBy(Agent)) |-> RequestsBy(Agent)[i].hotkey_id]
        = [i \in 1 .. Len(received[<<Agent, Hotkey>>]) |-> received[<<Agent, Hotkey>>][i].payload]

\* the agent has triggered two different actions in the order they were published
C18_Witness ==
    /\ Len(RequestsBy(Agent)) = 2
    /\ RequestsBy(Agent)[1] = Request(Agent, "hotkey_1", "triggered")
    /\ RequestsBy(Agent)[2] = Request(Agent, "hotkey_2", "triggered")
    /\ published[Hotkey] = <<Event(Hotkey, "hotkey_1"), Event(Hotkey, "hotkey_2")>>


\* w is a and b merged, each in its own order
RECURSIVE Interleaves(_, _, _)
Interleaves(a, b, w) ==
    IF w = <<>> THEN a = <<>> /\ b = <<>>
    ELSE \/ a # <<>> /\ Head(a) = Head(w) /\ Interleaves(Tail(a), b, Tail(w))
         \/ b # <<>> /\ Head(b) = Head(w) /\ Interleaves(a, Tail(b), Tail(w))

\* the events of topic t that reached its queue, each received by exactly one of the two
\* consumers or still pending, are the last events published to t
DeliveredOnce(t) ==
    \E k \in 0 .. Len(published[t]) :
        LET enqueued == SubSeq(published[t], k + 1, Len(published[t]))
            taken == Len(enqueued) - Len(Pending(queues, t))
        IN  /\ taken >= 0
            /\ SubSeq(enqueued, taken + 1, Len(enqueued)) = Pending(queues, t)
            /\ Interleaves(received[<<"c1", t>>], received[<<"c2", t>>],
                           SubSeq(enqueued, 1, taken))

\* C19: subscribers of one topic share one queue. A step that neither publishes nor
\* receives (a subscribe call) leaves the queue of every topic that has one as it was,
\* pending events included, and across the consumers of a topic every event that reached
\* the queue is received by exactly one of them, never by two.
C19_CompetingConsumers ==
    /\ [](\A t \in BusTopics : DeliveredOnce(t))
    /\ [][\A t \in DOMAIN queues :
             (published' = published /\ received' = received)
                => (t \in DOMAIN queues' /\ queues'[t] = queues[t])]_vars

\* two consumers subscribed to the same topic have each received one of its events and
\* a third is pending
C19_Witness ==
    /\ {<<"c1", "test_event">>, <<"c2", "test_event">>} \subseteq handles
    /\ received[<<"c1", "test_event">>] = <<Event("test_event", "test_payload")>>
    /\ received[<<"c2", "test_event">>] = <<Event("test_event", "p2")>>
    /\ Len(Pending(queues, "test_event")) = 1


\* the action dispatched last before the i-th transcript, <<>> when there is none
RECURSIVE LastDispatchBefore(_)
LastDispatchBefore(i) ==
    IF i = 1 THEN <<>>
    ELSE IF trace[i - 1].out # <<>> THEN trace[i - 1].out
    ELSE LastDispatchBefore(i - 1)

\* C20: a dispatch of an action that is a first hit (the action dispatched before it is
\* another one, or there is none) leaves the cooldown table as it was and the resolver
\* goes on to the next transcript: the expiry of an action is recorded only by its second
\* consecutive dispatch.
C20_ArmedBySecondHit ==
    \A i \in 1 .. Len(trace) :
        (trace[i].out # <<>> /\ LastDispatchBefore(i) # trace[i].out)
            => (trace[i].after = trace[i].before /\ ~trace[i].raised)


(***************************************************************************)
(* Properties of the two trigger paths (SpecTrigger)                       *)
(***************************************************************************)
\* the action the i-th transcript resolves to, <<>> when it matches no keyword
ResolvedAction(i) ==
    IF Matches(trace[i].text) = {} THEN <<>> ELSE <<ActionOf(FirstMatch(trace[i].text))>>

RECURSIVE ResolverTriggersTo(_)
ResolverTriggersTo(n) ==
    IF n = 0 THEN <<>>
    ELSE IF ResolvedAction(n) = <<>> THEN ResolverTriggersTo(n - 1)
    ELSE Append(ResolverTriggersTo(n - 1),
                [action |-> ResolvedAction(n), at |-> trace[n].at, out |-> trace[n].out])

\* the triggers of the transcript path: action, time and decision
ResolverTriggers == ResolverTriggersTo(Len(trace))

RECURSIVE EmotionTriggersTo(_)
EmotionTriggersTo(n) ==
    IF n = 0 THEN <<>>
    ELSE IF emoTrace[n].action = <<>> THEN EmotionTriggersTo(n - 1)
    ELSE Append(EmotionTriggersTo(n - 1),
                [action |-> emoTrace[n].action, at |-> emoTrace[n].at, out |-> emoTrace[n].out])

\* the triggers of the emotion path: action, time and decision
EmotionTriggers == EmotionTriggersTo(Len(emoTrace))

\* C21: when the first n triggers of the transcript path and of the emotion path are the
\* same actions at the same times, the n-th is dispatched on both paths or dropped on both.
C21_SameDecisions ==
    \A n \in 1 .. Len(ResolverTriggers) :
        (/\ n <= Len(EmotionTriggers)
         /\ \A j \in 1 .. n : /\ ResolverTriggers[j].action = EmotionTriggers[j].action
                              /\ ResolverTriggers[j].at = EmotionTriggers[j].at)
            => ResolverTriggers[n].out = EmotionTriggers[n].out

\* C22: a trigger for an action that nothing has recorded a cooldown for is dispatched,
\* on the transcript path and on the emotion path, at every clock value.
C22_FirstTriggerDispatched ==
    /\ \A i \in 1 .. Len(trace) :
          (ResolvedAction(i) # <<>> /\ ResolvedAction(i)[1] \notin DOMAIN trace[i].before)
              => trace[i].out = ResolvedAction(i)
    /\ \A i \in 1 .. Len(emoTrace) :
          (emoTrace[i].action # <<>> /\ emoTrace[i].action[1] \notin DOMAIN emoTrace[i].before)
              => emoTrace[i].out = emoTrace[i].action

\* C23: handling a trigger leaves the recorded expiry (or trigger time) of every other
\* action as it was, and a transcript resolving to an action with no expiry ahead of the
\* clock is dispatched whatever the expiries of the other actions are: the resolver that
\* dispatched one action takes the transcripts that follow.
C23_PerActionCooldown ==
    /\ (/\ Transcription \in DOMAIN queues /\ queues[Transcription] # <<>>
        /\ trace # <<>> /\ trace[Len(trace)].out # <<>>)
           => LET text == Head(queues[Transcription]).payload
              IN  (/\ Matches(text) # {}
                   /\ <<ActionOf(FirstMatch(text))>> # trace[Len(trace)].out)
                  => resolver_error = "None"
    /\ \A i \in 1 .. Len(trace) :
          ResolvedAction(i) # <<>> =>
              LET a == ResolvedAction(i)[1]
                  e == trace[i]
              IN  /\ DOMAIN e.after \ {a} = DOMAIN e.before \ {a}
                  /\ \A b \in DOMAIN e.before \ {a} : e.after[b] = e.before[b]
                  /\ ~BeforeExpiry(e.before, a, e.at) => e.out = <<a>>
    /\ \A i \in 1 .. Len(emoTrace) :
          LET e == emoTrace[i]
          IN  /\ DOMAIN e.after \ {x \in {"hk1", "hk2"} : <<x>> = e.action}
                    = DOMAIN e.before \ {x \in {"hk1", "hk2"} : <<x>> = e.action}
              /\ \A b \in DOMAIN e.before : <<b>> # e.action => e.after[b] = e.before[b]


(***************************************************************************)
(* More properties of the resolver (Spec)                                  *)
(***************************************************************************)
\* C24: a transcript publishes at most one dispatch event, and only for the first keyword
\* in table order that its lowercased text contains; when the action of that keyword is
\* on cooldown nothing is published, even if a later keyword matches too.
C24_FirstMatchOnly ==
    \A i \in 1 .. Len(trace) :
        /\ Len(trace[i].out) <= 1
        /\ Matches(trace[i].text) = {} => trace[i].out = <<>>
        /\ Matches(trace[i].text) # {} =>
              LET a == ActionOf(FirstMatch(trace[i].text))
              IN  /\ trace[i].out \in {<<>>, <<a>>}
                  /\ BeforeExpiry(trace[i].before, a, trace[i].at) => trace[i].out = <<>>

\* the transcript contains two keywords of two actions, neither on cooldown, and the
\* one event published is for the first of them
C24_Witness ==
    \E i \in 1 .. Len(trace) :
        /\ Cardinality(Matches(trace[i].text)) = 2
        /\ \E j, m \in Matches(trace[i].text) :
              /\ j < m /\ ActionOf(j) # ActionOf(m)
              /\ ~BeforeExpiry(trace[i].before, ActionOf(j), trace[i].at)
              /\ ~BeforeExpiry(trace[i].before, ActionOf(m), trace[i].at)
              /\ trace[i].out = <<ActionOf(j)>>


C26_SharedKeyKept ==
    \A i \in 1..Len(lastSync.remote) :
        LET exp == lastSync.remote[i]
        IN  DictHas(lastSync.before, exp.file) =>
                /\ DictHas(lastSync.result, exp.file)
                /\ DictGet(lastSync.result, exp.file) = DictGet(lastSync.before, exp.file)

\* C27: a pass that computed a mapping whose keys are not those of the local mapping (a
\* key added, a key removed, or both with the count unchanged) saved that mapping.
C27_ChangeIsSaved ==
    (lastSync.ran /\ lastSync.remote # <<>>
        /\ KeySet(lastSync.result) # KeySet(lastSync.before))
    => /\ lastSync.wrote
       /\ saved_expressions = lastSync.result
       /\ config_expressions = lastSync.result

\* a pass with removals only, after a pass with one key added and one removed that left
\* the count unchanged
C27_Witness ==
    /\ lastSync.ran /\ lastSync.wrote
    /\ KeySet(lastSync.result) \subseteq KeySet(lastSync.before)
    /\ KeySet(lastSync.result) # KeySet(lastSync.before)
    /\ Len(lastSync.result) = 1


(***************************************************************************)
(* Properties of the recognition ticks (SpecAsr)                           *)
(***************************************************************************)
\* the text emitted last before the i-th tick in the same utterance, <<>> when there is
\* none or an endpoint came after it
RECURSIVE LastEmittedSinceEndpoint(_)
LastEmittedSinceEndpoint(i) ==
    IF i = 1 THEN <<>>
    ELSE IF ticks[i - 1].raised THEN LastEmittedSinceEndpoint(i - 1)
    ELSE IF ticks[i - 1].is_endpoint THEN <<>>
    ELSE IF ticks[i - 1].text # <<>> THEN ticks[i - 1].text
    ELSE LastEmittedSinceEndpoint(i - 1)

\* the texts the ticks emitted, in order
RECURSIVE EmittedTexts(_)
EmittedTexts(n) ==
    IF n = 0 THEN <<>>
    ELSE IF ticks[n].text = <<>> THEN EmittedTexts(n - 1)
    ELSE Append(EmittedTexts(n - 1), Event(Transcription, ticks[n].text))

\* C28: in fast mode a tick publishes the stripped hypothesis exactly when it is non-empty
\* and is not the text emitted last in the utterance; two ticks in a row emit the same
\* text only across an endpoint; the transcripts published are the texts so emitted.
C28_FastEmitsOnChange ==
    recognition_mode = "fast" =>
        /\ \A i \in 1 .. Len(ticks) :
              ~ticks[i].raised =>
                  ticks[i].text = IF /\ Strip(ticks[i].result) # <<>>
                                     /\ Strip(ticks[i].result) # LastEmittedSinceEndpoint(i)
                                  THEN Strip(ticks[i].result) ELSE <<>>
        /\ \A i \in 1 .. Len(ticks) - 1 :
              (ticks[i].text # <<>> /\ ticks[i + 1].text = ticks[i].text) => ticks[i].is_endpoint
        /\ published[Transcription] = EmittedTexts(Len(ticks))

\* "hi" is emitted at an endpoint and again by the next tick, in the next utterance
C28_Witness ==
    /\ recognition_mode = "fast"
    /\ Len(ticks) >= 2
    /\ ticks[1].text = <<"h", "i">> /\ ticks[1].is_endpoint
    /\ ticks[2].text = <<"h", "i">>

\* C29: in accurate mode a tick without an endpoint publishes nothing, a tick with an
\* endpoint publishes the stripped hypothesis, once, if it is not empty.
C29_AccurateEmitsAtEndpoint ==
    recognition_mode = "accurate" =>
        /\ \A i \in 1 .. Len(ticks) :
              ~ticks[i].raised =>
                  ticks[i].text = IF ticks[i].is_endpoint THEN Strip(ticks[i].result) ELSE <<>>
        /\ published[Transcription] = EmittedTexts(Len(ticks))
        /\ Len(published[Transcription])
              <= Cardinality({i \in 1 .. Len(ticks) : ticks[i].is_endpoint})

\* a partial hypothesis was kept back and published by the tick with the endpoint
C29_Witness ==
    /\ recognition_mode = "accurate"
    /\ Len(ticks) >= 2
    /\ ticks[1].result = <<"h", "i">> /\ ~ticks[1].is_endpoint /\ ~ticks[1].raised
    /\ ticks[1].text = <<>>
    /\ ticks[2].is_endpoint /\ ticks[2].text = <<"h", "i">>
    /\ published[Transcription] = <<Event(Transcription, <<"h", "i">>)>>

\* C30: a tick that observed an endpoint reset the decoder stream, in either mode and
\* whether or not it emitted a transcript: the stream holds nothing after it.
C30_EndpointResetsStream ==
    /\ \A i \in 1 .. Len(ticks) :
          (~ticks[i].raised /\ ticks[i].is_endpoint) => ticks[i].reset /\ ticks[i].stream = <<>>
    /\ (ticks # <<>> /\ ~ticks[Len(ticks)].raised /\ ticks[Len(ticks)].is_endpoint)
          => stream = <<>>

\* in accurate mode an endpoint with an empty hypothesis emitted nothing and reset the
\* stream, after a tick that had left a hypothesis in it
C30_Witness ==
    /\ recognition_mode = "accurate"
    /\ Len(ticks) >= 2
    /\ ticks[1].stream = <<"y", "o">>
    /\ ticks[2].is_endpoint /\ ticks[2].text = <<>> /\ ticks[2].reset
    /\ stream = <<>>

(***************************************************************************)
(* Properties of the Utterance Buffer (SpecBuffer)                         *)
(***************************************************************************)
RECURSIVE FedThrough(_)
FedThrough(n) == IF n = 0 THEN 0 ELSE FedThrough(n - 1) + fedLog[n].fed

\* C31: a VAD frame is appended to the Utterance Buffer if and only if it was classified
\* as speech: the frames appended, with those whose callback still waits for the lock,
\* are exactly the speech frames, and the recognizer is fed appended frames only.
C31_OnlySpeechAppended ==
    /\ heard.appended + lock_waiters = heard.speech
    /\ audio_buffer <= heard.appended
    /\ FedThrough(Len(fedLog)) <= heard.appended

\* speech and non-speech frames were classified, every speech frame is in and a tick fed
\* the recognizer
C31_Witness ==
    /\ heard.other > 0 /\ heard.speech > 0
    /\ lock_waiters = 0 /\ heard.appended = heard.speech
    /\ fedLog # <<>>

\* C32: appends and the drain of the tick exclude each other: from the tick feeding the
\* buffer to the recognizer to its clearing it no frame is appended, so the frames a
\* tick clears are the frames it fed.
C32_DrainExcludesAppend ==
    /\ \A i \in 1..Len(fedLog) : fedLog[i].cleared \in {-1, fedLog[i].fed}
    /\ audio_processing_task = "transcribed" => audio_buffer = fedLog[Len(fedLog)].fed
    /\ audio_processing_task \in {"transcribing", "transcribed", "listening"}
          <=> buffer_lock = AudioTask

\* a callback waited with its speech frame while the tick was between feed and clear,
\* and the tick has cleared what it fed
C32_Witness ==
    /\ fedLog # <<>> /\ fedLog[Len(fedLog)].cleared = fedLog[Len(fedLog)].fed
    /\ audio_processing_task = "listening"
    /\ lock_waiters > 0

(***************************************************************************)
(* More properties of ApplicationCore.run() (SpecApp)                      *)
(***************************************************************************)
StartupOrder == <<"connect", "authenticate", "synchronize", "initialize", "create_tasks">>

\* C33: run() creates its tasks only after connect(), then authenticate(), then the
\* synchronization of the trigger table have completed, in that order; when
\* _initialize_components leaves no input processor, run() creates no task and returns.
C33_TasksAfterStartup ==
    /\ (\E t \in TaskNames : tasks[t] # "none") =>
          /\ Len(runLog) >= 5 /\ SubSeq(runLog, 1, 5) = StartupOrder
          /\ connect_pc = "returned" /\ authenticated \in {"authenticated", "refused"}
          /\ lastSync # NoSync
    /\ input_processor = "None" => tasks = NoTasks
    /\ (input_processor = "None" /\ (runLog # <<>> /\ runLog[Len(runLog)] = "initialize"))
          => run_pc = "returned"
    /\ (~config_loaded /\ run_pc # "idle") => (run_pc = "returned" /\ tasks = NoTasks)

\* the three tasks exist after the start-up calls
C33_Witness ==
    /\ run_pc = "gather"
    /\ tasks[Resolver] # "none" /\ tasks[InputConsumer] # "none" /\ tasks[Gateway] # "none"
    /\ SubSeq(runLog, 1, 5) = StartupOrder

\* C34: a session of the emotion detector that opened the webcam releases it exactly
\* once: cap.release() is never called a second time, and when run() has returned it
\* was called.
C34_ReleasedExactlyOnce ==
    cap \in {"open", "released"} =>
        /\ releases <= 1
        /\ run_pc = "returned" => releases = 1

\* C38: when run() has returned or raised, whether it was cancelled or one of its
\* tasks failed with an exception, no task it created is still running.
C38_NoTaskOutlivesRun ==
    run_pc \in {"returned", "raised"} => \A t \in TaskNames : ~StillRunning(t)

(***************************************************************************)
(* More properties of KeywordIntentResolver (Spec)                         *)
(***************************************************************************)
\* C35: resolve_intent never ends on its own: after every transcript it has handled,
\* whether nothing matched, the match was on cooldown or the action was dispatched
\* (with cooldown_s > 0 too), the resolver is back at waiting for the next event.
C35_ResolverKeepsWaiting ==
    /\ resolver_error = "None"
    /\ \A i \in 1..Len(trace) : ~trace[i].raised

(***************************************************************************)
(* Properties of the emotion mode (SpecEmotionMode)                        *)
(***************************************************************************)
\* the requests sent for a hotkey, by any task
RECURSIVE RequestsFor(_, _)
RequestsFor(hotkey_id, n) ==
    IF n = 0 THEN 0
    ELSE RequestsFor(hotkey_id, n - 1) + (IF requests[n].hotkey_id = hotkey_id THEN 1 ELSE 0)

\* the emotion events the handler accepted for a hotkey
RECURSIVE AcceptedFor(_, _)
AcceptedFor(hotkey_id, n) ==
    IF n = 0 THEN 0
    ELSE AcceptedFor(hotkey_id, n - 1) + (IF emoTrace[n].out = <<hotkey_id>> THEN 1 ELSE 0)

\* C36: in emotion mode every emotion event the handler accepts leads to exactly one
\* trigger request for the mapped action, the requests of all tasks counted: there are
\* never more requests for an action than accepted events for it, and the accepting
\* handler has sent its request.
C36_OneTriggerPerEmotion ==
    \A hotkey_id \in {"hk1", "hk2"} :
        /\ RequestsFor(hotkey_id, Len(requests)) <= AcceptedFor(hotkey_id, Len(emoTrace))
        /\ AcceptedFor(hotkey_id, Len(emoTrace)) > 0 => RequestsFor(hotkey_id, Len(requests)) > 0

(***************************************************************************)
(* More properties of connect() (SpecConnect)                              *)
(***************************************************************************)
\* C37: connect() returns normally only if an attempt succeeded; for every max_retries,
\* 0 too, a connect() in which no attempt succeeded has published "Connection Failed"
\* and raised.
C37_ReturnsOnlyConnected ==
    /\ connect_pc = "returned" =>
          \E i \in 1 .. Len(connLog) : connLog[i] = Attempted(TRUE)
    /\ connect_pc = "raised" =>
          /\ connLog[Len(connLog)] = Status("Connection Failed")
          /\ \A i \in 1 .. Len(connLog) : connLog[i] # Attempted(TRUE)

(***************************************************************************)
(* More properties of the voice pipeline (SpecAsr)                         *)
(***************************************************************************)
\* C39: after stop_listening() on a running voice pipeline, with no task cancelled, the
\* loop of start_listening ends and the audio input is closed, with no further
\* transcript: while the input is still open after the stop, the loop is not waiting
\* for a transcript that has not been produced.
C39_StopEndsListening ==
    (/\ ~asr_running /\ input_stream = "open"
     /\ tasks[InputConsumer] = "blocked" /\ InputConsumer \notin cancelling)
    => transcription_queue # <<>>

(***************************************************************************)
(* Properties of asr_callback (SpecMain)                                   *)
(***************************************************************************)
\* C40: the two-consecutive-hits rule of asr_callback prevents runaway triggering: for
\* every sequence of transcripts and every action, no three dispatches of the action
\* lie within one window of the cooldown duration (60 s), also after an earlier
\* cooldown of the action has expired.
C40_AtMostTwoPerWindow ==
    \A i, j, k \in 1 .. Len(mainTrace) :
        (/\ i < j /\ j < k
         /\ mainTrace[i].out # <<>>
         /\ mainTrace[j].out = mainTrace[i].out /\ mainTrace[k].out = mainTrace[i].out)
        => mainTrace[k].at - mainTrace[i].at >= CooldownDuration

====
